---- MODULE Spec2Model ----
(***************************************************************************)
(* Model of the hugo-admin article cache (services/cache_service.py,       *)
(* models/database.py, utils/blog_parser.py) and of the publish path of    *)
(* services/post_service.py.                                               *)
(*                                                                         *)
(* Strings that the code compares character by character (paths) are      *)
(* sequences of one-character strings; a path is a sequence of segments.   *)
(***************************************************************************)
EXTENDS Integers, Sequences, FiniteSets, TLC

\* ------------------------------------------------------------------ bounds
\* modification times the filesystem can hand out
MaxMtime == 2
\* UTC hours at which a publish can read the clock
MaxNow == 1
\* number of failed non-blocking lock attempts that fit into the timeout
MaxLockPolls == 2
\* longest file_paths list handed to bulk_publish_articles
MaxBulkLen == 3
\* most records a filtered result holds, and largest per_page asked for
MaxTotal == 25
MaxPerPage == 10
\* files in the post directory when a list is asked for
MaxPosts == 3
\* pages asked for below page 1: 0, -1, .. -MaxBack
MaxBack == 2

\* ------------------------------------------------------------- path layer
SegContent == <<"c">>
SegSibling == <<"c", "x">>
SegOutside == <<"o">>
SegPost    == <<"p", "o", "s", "t">>
SegA       == <<"a", ".", "m", "d">>
SegB       == <<"b", ".", "m", "d">>
SegN       == <<"n", ".", "m", "d">>
SegE       == <<"e", ".", "m", "d">>
SegT       == <<"t", ".", "t", "x", "t">>
DotDot     == <<".", ".">>

\* self.content_dir, an absolute path: /c
content_dir == <<SegContent>>

FA == <<SegContent, SegPost, SegA>>
FB == <<SegContent, SegPost, SegB>>
FT == <<SegContent, SegPost, SegT>>
FN == <<SegContent, SegN>>
FX == <<SegSibling, SegE>>
FO == <<SegOutside, SegE>>

\* every absolute, normalised path at which the model can hold a file
AllFiles == {FA, FB, FT, FN, FX, FO}

\* str(path) of an absolute path: "/" + seg for every segment; of a relative
\* path the same without the leading "/"
RECURSIVE Str(_)
Str(path) ==
  IF path = <<>> THEN <<>>
  ELSE <<"/">> \o Head(path) \o Str(Tail(path))

RelStr(path) == IF path = <<>> THEN <<".">> ELSE Tail(Str(path))

\* str.startswith
StartsWith(s, prefix) ==
  /\ Len(s) >= Len(prefix)
  /\ SubSeq(s, 1, Len(prefix)) = prefix

\* str.endswith
EndsWith(s, suffix) ==
  /\ Len(s) >= Len(suffix)
  /\ SubSeq(s, Len(s) - Len(suffix) + 1, Len(s)) = suffix

\* Path.resolve() on an absolute path without symlinks: ".." pops a segment
RECURSIVE ResolveFrom(_, _)
ResolveFrom(done, rest) ==
  IF rest = <<>> THEN done
  ELSE IF Head(rest) = DotDot
       THEN ResolveFrom(IF done = <<>> THEN <<>> ELSE SubSeq(done, 1, Len(done) - 1),
                        Tail(rest))
       ELSE ResolveFrom(Append(done, Head(rest)), Tail(rest))

Resolve(path) == ResolveFrom(<<>>, path)

\* a caller-supplied path: absolute or relative, segments may be ".."
\* "if not Path(file_path).is_absolute(): file_path = self.content_dir / file_path"
Absolutize(input) ==
  IF input.abs THEN input.segs ELSE content_dir \o input.segs

Rel(segs) == [abs |-> FALSE, segs |-> segs]
Abs(segs) == [abs |-> TRUE, segs |-> segs]

\* md_file.relative_to(content_dir)
RelativeTo(path, base) ==
  IF Len(path) >= Len(base) /\ SubSeq(path, 1, Len(base)) = base
  THEN SubSeq(path, Len(base) + 1, Len(path))
  ELSE path

\* ------------------------------------------------------------ file content
Mtimes == 1..MaxMtime

NoDate  == [present |-> FALSE, local |-> 0, offset |-> 0]
OldDate == [present |-> TRUE, local |-> 5, offset |-> 0]

DocDraft      == [title |-> "T", body |-> "B", draft |-> "true",
                  publishDate |-> NoDate, tags |-> << <<"x">> >>,
                  categories |-> << <<"k">> >>,
                  malformed |-> FALSE]
DocDraftDated == [title |-> "T", body |-> "B", draft |-> "true",
                  publishDate |-> OldDate, tags |-> << <<"x">>, <<"y">> >>,
                  categories |-> << <<"k">> >>,
                  malformed |-> FALSE]
DocPublished  == [title |-> "U", body |-> "B", draft |-> "false",
                  publishDate |-> OldDate, tags |-> << <<"y">> >>,
                  categories |-> << <<"k">>, <<"m">> >>,
                  malformed |-> FALSE]
DocNoDraft    == [title |-> "U", body |-> "", draft |-> "absent",
                  publishDate |-> NoDate, tags |-> <<>>, categories |-> <<>>,
                  malformed |-> FALSE]
\* an empty file: no title and no content
DocEmpty      == [title |-> "", body |-> "", draft |-> "absent",
                  publishDate |-> NoDate, tags |-> <<>>, categories |-> <<>>,
                  malformed |-> FALSE]

\* published by hand, no publishDate; and a dated draft that lacks its title
DocPublishedUndated == [title |-> "U", body |-> "B", draft |-> "false",
                        publishDate |-> NoDate, tags |-> <<>>, categories |-> <<>>,
                  malformed |-> FALSE]
DocUntitled         == [title |-> "", body |-> "B", draft |-> "true",
                        publishDate |-> OldDate, tags |-> <<>>, categories |-> <<>>,
                  malformed |-> FALSE]

\* a file whose front matter does not parse; title and body are what the
\* text would give if it did
DocBroken == [DocDraft EXCEPT !.malformed = TRUE]

\* documents written out-of-band while the cache is running
CacheDocs == {DocDraft, DocPublished, DocEmpty}
\* documents a file can hold when the publish threads start
PublishDocs == {DocDraft, DocDraftDated, DocPublished, DocNoDraft}

NoFile == [exists |-> FALSE]
File(d, m) == [exists |-> TRUE, doc |-> d, mtime |-> m]

NoRow == [present |-> FALSE]

VARIABLES
  fs,            \* AllFiles -> NoFile or File(doc, mtime)
  db,            \* posts table: file_path -> NoRow or row
  initialized,   \* CacheService._initialized
  fs_changed,    \* a file was written or deleted since the last full scan
  last,          \* the last cache operation that returned: its argument, and
                 \* update_count / delete_count if initialize() ran in it
  pc,            \* per thread: where its publish_article call stands
  target,        \* per thread: the file_path argument of its call
  polls,         \* per thread: failed lock attempts while it waits for the lock
  loaded,        \* per thread: the post loaded under the lock, as it will be dumped
  result,        \* per thread: the message publish_article returned, and the
                 \* message of the tuple _safe_file_operation handed to it
  lock,          \* per file: holder of the exclusive flock
  write_count,   \* per file: frontmatter.dump calls made by publish
  sync,          \* per worker: where its CacheService.initialize call stands,
                 \* with the local variables to_update and to_delete
  pending,       \* files changed on disk that no scan or invalidation has
                 \* looked at since
  bulk,          \* the bulk_publish_articles call: its locals and its return
  ret,           \* what the last call of the read-only and Database layer returned
  table,         \* the posts table of a Database, its rows in rowid order
  dirs,          \* directories the service has created, as resolved paths
  hugo,          \* HugoServerManager: process, pid, is_running and the logs
  procs,         \* the hugo processes spawned so far: alive or exited
  calls          \* per caller: where its HugoServerManager.start call stands

cachevars == <<db, initialized, last>>
pubvars == <<pc, target, polls, loaded, result, lock, write_count>>
extvars == <<dirs, hugo, procs, calls>>
auxvars == <<sync, pending, bulk, ret, table, extvars>>
vars == <<fs, fs_changed, cachevars, pubvars, auxvars>>

\* ------------------------------------------------------------------ parser
FileExists(path) == path \in AllFiles /\ fs[path].exists

\* "self.draft = metadata.get('draft', False)"
ParserDraft(doc) == IF doc.draft = "absent" THEN FALSE ELSE doc.draft = "true"

\* what _parse sets from the file: the parsed metadata and body, or, when
\* the parse raised, the defaults of __init__ (the except clause prints
\* the error and returns)
Metadata(doc) ==
  IF doc.malformed
  THEN [title |-> "", body |-> "", draft |-> "absent", tags |-> <<>>,
        categories |-> <<>>]
  ELSE [title |-> doc.title, body |-> doc.body, draft |-> doc.draft,
        tags |-> doc.tags, categories |-> doc.categories]

\* BlogPost(file_path)._parse of an existing regular file; relative_path is
\* None until get_blog_posts sets it
BlogPost(path) ==
  LET metadata == Metadata(fs[path].doc) IN
  [file_path     |-> path,
   has_relative  |-> FALSE,
   relative_path |-> <<>>,
   title         |-> metadata.title,
   draft         |-> ParserDraft(metadata),
   content       |-> metadata.body,
   tags          |-> metadata.tags,
   categories    |-> metadata.categories,
   mod_time      |-> fs[path].mtime]

\* post_dir.rglob("*.md"): regular files below content_dir/post named *.md
MdSuffix == <<".", "m", "d">>
post_dir == content_dir \o <<SegPost>>

Globbed ==
  {f \in AllFiles :
     /\ FileExists(f)
     /\ Len(f) > Len(post_dir)
     /\ SubSeq(f, 1, Len(post_dir)) = post_dir
     /\ EndsWith(f[Len(f)], MdSuffix)}

\* variant: every parsed file is kept
Skipped_Never(post) == FALSE

\* "if not post.title and not post.content: continue"
Skipped(post) == post.title = "" /\ post.content = ""

\* get_blog_posts(content_dir), as the set of posts it returns; BlogPost()
\* has parsed every globbed file by then
get_blog_posts ==
  {[BlogPost(f) EXCEPT !.has_relative = TRUE,
                       !.relative_path = RelativeTo(f, content_dir)] :
     f \in {g \in Globbed : ~Skipped(BlogPost(g))}}

\* ------------------------------------------------------------------- index
Quote == "q"

Backslash == "\\"

\* json.dumps of one string's characters: a quotation mark and a backslash
\* are written behind a backslash
RECURSIVE JsonEscape(_)
JsonEscape(chars) ==
  IF chars = <<>> THEN <<>>
  ELSE (IF Head(chars) \in {Quote, Backslash} THEN <<Backslash, Head(chars)>>
        ELSE <<Head(chars)>>) \o JsonEscape(Tail(chars))

\* json.dumps of a list of strings: ["a", "b"]
RECURSIVE JsonItems(_)
JsonItems(items) ==
  IF items = <<>> THEN <<>>
  ELSE <<Quote>> \o JsonEscape(Head(items)) \o <<Quote>>
       \o (IF Len(items) > 1 THEN <<",", " ">> ELSE <<>>)
       \o JsonItems(Tail(items))

JsonDumps(items) == <<"[">> \o JsonItems(items) \o <<"]">>

\* json.loads of such a text: the strings between quotes, in order, the
\* character behind a backslash taken as it stands
RECURSIVE JsonScan(_, _, _, _)
JsonScan(text, inside, cur, acc) ==
  IF text = <<>> THEN acc
  ELSE IF inside /\ Head(text) = Backslash /\ Len(text) > 1
       THEN JsonScan(Tail(Tail(text)), TRUE, Append(cur, text[2]), acc)
  ELSE IF Head(text) = Quote
       THEN IF inside
            THEN JsonScan(Tail(text), FALSE, <<>>, Append(acc, cur))
            ELSE JsonScan(Tail(text), TRUE, <<>>, acc)
       ELSE IF inside
            THEN JsonScan(Tail(text), TRUE, Append(cur, Head(text)), acc)
            ELSE JsonScan(Tail(text), FALSE, cur, acc)

JsonLoads(text) == JsonScan(text, FALSE, <<>>, <<>>)

\* CacheService._cache_post + Database.upsert_post: the stored row
CacheRow(post) ==
  [present       |-> TRUE,
   relative_path |-> IF post.has_relative THEN RelStr(post.relative_path)
                     ELSE <<"N", "o", "n", "e">>,
   title         |-> post.title,
   tags          |-> JsonDumps(post.tags),
   categories    |-> JsonDumps(post.categories),
   mod_time      |-> post.mod_time]

\* Database.upsert_post: INSERT OR REPLACE keyed by file_path
upsert_post(d, key, row) == [d EXCEPT ![key] = row]

\* Database.delete_post
delete_post(d, key) == IF key \in DOMAIN d THEN [d EXCEPT ![key] = NoRow] ELSE d

\* Database.get_all_file_paths
get_all_file_paths(d) == {k \in DOMAIN d : d[k].present}

\* Database._row_to_dict
row_to_dict(key, row) ==
  [file_path |-> key, relative_path |-> row.relative_path, title |-> row.title,
   tags |-> JsonLoads(row.tags), categories |-> JsonLoads(row.categories),
   mod_time |-> row.mod_time]

\* --------------------------------------------------- full reconciliation
\* variant: stale rows are never removed
\* variant: stale rows are never removed
ToDelete_None(cached_paths, current_paths) == {}

\* "to_delete = cached_paths - current_paths"
ToDelete(cached_paths, current_paths) == cached_paths \ current_paths

\* variant: only new files are picked up, a changed mod_time is not looked at
NeedsUpdate_IgnoreMtime(d, force, cached_paths, post) ==
  force \/ post.file_path \notin cached_paths

\* variant: every scanned post is written again
NeedsUpdate_Always(d, force, cached_paths, post) == TRUE

\* the test that puts a scanned post into to_update
NeedsUpdate(d, force, cached_paths, post) ==
  IF force \/ post.file_path \notin cached_paths
  THEN TRUE
  ELSE d[post.file_path].present /\ d[post.file_path].mod_time # post.mod_time

\* the body of CacheService.initialize after the guard
Reconcile(d, force) ==
  LET current_posts == get_blog_posts
      current_paths == {post.file_path : post \in current_posts}
      cached_paths  == get_all_file_paths(d)
      to_delete     == ToDelete(cached_paths, current_paths)
      to_update     == {post \in current_posts :
                          NeedsUpdate(d, force, cached_paths, post)}
      row_of(k)     == CacheRow(CHOOSE post \in to_update : post.file_path = k)
  IN [db |-> [k \in DOMAIN d |->
                IF k \in {post.file_path : post \in to_update} THEN row_of(k)
                ELSE IF k \in to_delete THEN NoRow
                ELSE d[k]],
      parse_count  |-> Cardinality(Globbed),
      update_count |-> Cardinality(to_update),
      delete_count |-> Cardinality(to_delete)]

\* what an operation that ran no scan leaves in last
Returned(op, arg, force) ==
  [op |-> op, arg |-> arg, ran |-> FALSE, force |-> force, clean |-> ~fs_changed,
   parse_count |-> 0, update_count |-> 0, delete_count |-> 0]

\* variant: the guard returns whatever the flag says
GuardReturns_Always(force) == TRUE

\* "if self._initialized and not force_rebuild: return"
GuardReturns(force) == initialized /\ ~force

\* CacheService.initialize(force_rebuild) as called by op
InitializeAs(op, force) ==
  IF GuardReturns(force)
  THEN /\ UNCHANGED <<db, initialized, fs_changed>>
       /\ last' = Returned(op, <<>>, force)
  ELSE LET r == Reconcile(db, force) IN
       /\ db' = r.db
       /\ initialized' = TRUE
       /\ fs_changed' = FALSE
       /\ last' = [Returned(op, <<>>, force) EXCEPT
                     !.ran = TRUE,
                     !.parse_count = r.parse_count,
                     !.update_count = r.update_count,
                     !.delete_count = r.delete_count]

Initialize(force) == InitializeAs("initialize", force) /\ UNCHANGED <<fs, pubvars, auxvars>>

\* CacheService.refresh
Refresh == InitializeAs("refresh", FALSE) /\ UNCHANGED <<fs, pubvars, auxvars>>

\* "if not self._initialized: self.initialize()" in front of every query
LazyInit(op) ==
  IF ~initialized
  THEN InitializeAs(op, FALSE)
  ELSE /\ UNCHANGED <<db, initialized, fs_changed>>
       /\ last' = Returned(op, <<>>, FALSE)

GetPosts == LazyInit("get_posts") /\ UNCHANGED <<fs, pubvars, auxvars>>
GetAllTags == LazyInit("get_all_tags") /\ UNCHANGED <<fs, pubvars, auxvars>>
GetAllCategories == LazyInit("get_all_categories") /\ UNCHANGED <<fs, pubvars, auxvars>>

\* ----------------------------------------------------------------- queries
DefaultPerPage == 20

\* CacheService.get_posts() with default arguments, the page as a set
get_posts(d) ==
  LET all_posts   == {row_to_dict(k, d[k]) : k \in get_all_file_paths(d)}
      total       == Cardinality(all_posts)
      total_pages == (total + DefaultPerPage - 1) \div DefaultPerPage
  IN [posts |-> IF total <= DefaultPerPage THEN all_posts ELSE {},
      total |-> total, page |-> 1, per_page |-> DefaultPerPage,
      total_pages |-> total_pages, has_next |-> 1 < total_pages,
      has_prev |-> FALSE]

RECURSIVE CountIn(_, _)
CountIn(x, items) ==
  IF items = <<>> THEN 0
  ELSE (IF Head(items) = x THEN 1 ELSE 0) + CountIn(x, Tail(items))

RECURSIVE SumOver(_, _, _, _)
SumOver(d, keys, field, x) ==
  IF keys = {} THEN 0
  ELSE LET k == CHOOSE j \in keys : TRUE IN
       CountIn(x, JsonLoads(d[k][field])) + SumOver(d, keys \ {k}, field, x)

\* Database.get_all_tags / get_all_categories, as name -> count
Counts(d, field) ==
  LET names == UNION {{JsonLoads(d[k][field])[i] :
                         i \in 1..Len(JsonLoads(d[k][field]))} :
                      k \in get_all_file_paths(d)}
  IN [x \in names |-> SumOver(d, get_all_file_paths(d), field, x)]

get_all_tags(d) == Counts(d, "tags")
get_all_categories(d) == Counts(d, "categories")

\* ---------------------------------------------------- targeted invalidation
\* BlogPost.__init__(self, file_path) takes one argument
BlogPostParams == 1
\* variant: the call passes the file path alone
InvalidateCallArgs_One == BlogPostParams

\* "BlogPost(file_path, str(self.content_dir))" passes two
InvalidateCallArgs == 2

\* CacheService.invalidate_post(file_path)
invalidate_post(d, input) ==
  LET file_path == Resolve(Absolutize(input)) IN
  IF ~FileExists(file_path)
  THEN delete_post(d, file_path)
  ELSE IF InvalidateCallArgs # BlogPostParams
       THEN d      \* TypeError, caught by "except Exception"
       ELSE upsert_post(d, file_path, CacheRow(BlogPost(file_path)))

InvalidateInputs ==
  {Rel(<<SegPost, SegA>>), Abs(FB), Abs(<<SegContent, DotDot>> \o FA), Abs(FN)}

InvalidatePost(input) ==
  /\ db' = invalidate_post(db, input)
  /\ last' = Returned("invalidate", Resolve(Absolutize(input)), FALSE)
  /\ UNCHANGED <<fs, initialized, fs_changed, pubvars, auxvars>>

\* -------------------------------------------------------------- environment
\* files an editor creates, edits and deletes behind the service's back
EnvFiles == {FA, FB}

EnvLast == [Returned("fs", <<>>, FALSE) EXCEPT !.clean = FALSE]

FsWrite(f, d, m) ==
  /\ fs' = [fs EXCEPT ![f] = File(d, m)]
  /\ fs_changed' = TRUE
  /\ last' = EnvLast
  /\ UNCHANGED <<db, initialized, pubvars, auxvars>>

FsDelete(f) ==
  /\ fs[f].exists
  /\ fs' = [fs EXCEPT ![f] = NoFile]
  /\ fs_changed' = TRUE
  /\ last' = EnvLast
  /\ UNCHANGED <<db, initialized, pubvars, auxvars>>

\* a new process: CacheService.__init__ over the database file left on disk
Restart ==
  /\ initialized
  /\ initialized' = FALSE
  /\ last' = Returned("restart", <<>>, FALSE)
  /\ UNCHANGED <<fs, db, fs_changed, pubvars, auxvars>>

\* ------------------------------------- full reconciliation, step by step
\* request threads that call into the one CacheService; initialize() takes
\* no lock, so its reads and its writes are separate steps
Workers == {"w1", "w2"}

NoSync == [pc |-> "idle", op |-> "none", force |-> FALSE, parse_count |-> 0,
           to_update |-> {}, to_delete |-> {}]

\* to_update as initialize() collects it, each post as the row _cache_post
\* will store
ScanUpdates(d, force) ==
  {[key |-> post.file_path, row |-> CacheRow(post)] :
     post \in {q \in get_blog_posts :
                 NeedsUpdate(d, force, get_all_file_paths(d), q)}}

\* to_delete as initialize() collects it
ScanDeletes(d) ==
  ToDelete(get_all_file_paths(d), {post.file_path : post \in get_blog_posts})

\* the two loops at the end of initialize(): _cache_post for every post of
\* to_update, delete_post for every path of to_delete
ApplySync(d, to_update, to_delete) ==
  [k \in DOMAIN d |->
     IF \E u \in to_update : u.key = k
     THEN (CHOOSE u \in to_update : u.key = k).row
     ELSE IF k \in to_delete THEN NoRow ELSE d[k]]

\* get_posts / get_all_tags / get_all_categories up to their own test of
\* the guard, and initialize(force_rebuild) up to its first line
SyncCall(w, op, force) ==
  /\ sync[w].pc = "idle"
  /\ IF op # "initialize" /\ initialized
     THEN /\ last' = Returned(op, <<>>, FALSE)
          /\ UNCHANGED sync
     ELSE /\ sync' = [sync EXCEPT ![w] = [NoSync EXCEPT !.pc = "called",
                                                        !.op = op,
                                                        !.force = force]]
          /\ UNCHANGED last
  /\ UNCHANGED <<fs, fs_changed, db, initialized, pubvars, pending, bulk, ret, table, extvars>>

\* initialize(): the guard, then the reads (get_blog_posts, the cached
\* paths and mod_times)
SyncScan(w) ==
  /\ sync[w].pc = "called"
  /\ IF GuardReturns(sync[w].force)
     THEN /\ sync' = [sync EXCEPT ![w] = NoSync]
          /\ last' = Returned(sync[w].op, <<>>, sync[w].force)
          /\ UNCHANGED <<fs_changed, pending>>
     ELSE /\ sync' = [sync EXCEPT ![w].pc = "apply",
                                  ![w].parse_count = Cardinality(Globbed),
                                  ![w].to_update = ScanUpdates(db, sync[w].force),
                                  ![w].to_delete = ScanDeletes(db)]
          /\ fs_changed' = FALSE
          /\ pending' = {}
          /\ UNCHANGED last
  /\ UNCHANGED <<fs, db, initialized, pubvars, bulk, ret, table, extvars>>

\* initialize(): the writes, then "self._initialized = True"
SyncApply(w) ==
  /\ sync[w].pc = "apply"
  /\ db' = ApplySync(db, sync[w].to_update, sync[w].to_delete)
  /\ initialized' = TRUE
  /\ last' = [Returned(sync[w].op, <<>>, sync[w].force) EXCEPT
                !.ran = TRUE,
                !.parse_count = sync[w].parse_count,
                !.update_count = Cardinality(sync[w].to_update),
                !.delete_count = Cardinality(sync[w].to_delete)]
  /\ sync' = [sync EXCEPT ![w] = NoSync]
  /\ UNCHANGED <<fs, fs_changed, pubvars, pending, bulk, ret, table, extvars>>

\* the file an editor or a mutation works on while requests are served
SyncFiles == {FA}
SyncDocs == {DocDraft, DocPublished}

SyncWrite(f, d, m) ==
  /\ fs' = [fs EXCEPT ![f] = File(d, m)]
  /\ fs_changed' = TRUE
  /\ pending' = pending \cup {f}
  /\ last' = EnvLast
  /\ UNCHANGED <<db, initialized, pubvars, sync, bulk, ret, table, extvars>>

SyncDelete(f) ==
  /\ fs[f].exists
  /\ fs' = [fs EXCEPT ![f] = NoFile]
  /\ fs_changed' = TRUE
  /\ pending' = pending \cup {f}
  /\ last' = EnvLast
  /\ UNCHANGED <<db, initialized, pubvars, sync, bulk, ret, table, extvars>>

\* the targeted invalidation that follows a mutation of f
SyncInvalidate(f) ==
  /\ f \in pending
  /\ db' = invalidate_post(db, Abs(f))
  /\ pending' = pending \ {f}
  /\ last' = Returned("invalidate", f, FALSE)
  /\ UNCHANGED <<fs, fs_changed, initialized, pubvars, sync, bulk, ret, table, extvars>>

\* ------------------------------------------------------------------ publish
Threads == {"t1", "t2"}
NoPost == [title |-> "-"]

\* tz_cn = timezone(timedelta(hours=8))
TzOffsetHours == 8
\* the "+08:00" the strftime format ends with
StampSuffixHours == 8

\* now.strftime('%Y-%m-%dT%H:%M:%S+08:00') for now = datetime.now(tz_cn),
\* read when the UTC clock shows utc
Stamp(utc) ==
  [present |-> TRUE, local |-> utc + TzOffsetHours, offset |-> StampSuffixHours]

\* PostService._is_safe_path
is_safe_path(file_path) ==
  StartsWith(Str(Resolve(file_path)), Str(Resolve(content_dir)))

\* variant: the guard against publishing twice is gone
AlreadyPublished_Never(doc) == FALSE

\* "if not post.get('draft', False)": the article counts as published
AlreadyPublished(doc) == doc.draft # "true"

\* variant: publishDate is stamped on every publish
PublishedDoc_AlwaysStamp(doc, utc) ==
  [doc EXCEPT !.draft = "false", !.publishDate = Stamp(utc)]

\* the metadata publish_operation dumps: draft False, publishDate added if
\* the key is not there
PublishedDoc(doc, utc) ==
  [doc EXCEPT !.draft = "false",
              !.publishDate = IF doc.publishDate.present THEN doc.publishDate
                              ELSE Stamp(utc)]

\* variant: the flock call is skipped, every open succeeds at once
LockFree_NoFlock(f) == TRUE

\* fcntl.flock(LOCK_EX | LOCK_NB) succeeds: nobody holds a lock on the file
LockFree(f) == lock[f] = "none"

\* what _safe_file_operation returns: a tuple of n values
Tuple2(message) == [n |-> 2, success |-> FALSE, message |-> message]
Tuple3(success, message) == [n |-> 3, success |-> success, message |-> message]

\* "result, message, status_changed = self._safe_file_operation(...)" inside
\* publish_article's try: a tuple of another length raises ValueError, which
\* "except Exception" turns into the generic failure message
Unpacked(tuple) ==
  IF tuple.n = 3 THEN tuple.message ELSE "publish_failed"

TargetFile(t) == Resolve(Absolutize(target[t]))

NoResult == [message |-> "none", tuple_message |-> ""]
Pending == [message |-> "pending", tuple_message |-> ""]

\* publish_article returns before it has called _safe_file_operation
Returns(t, message) ==
  /\ pc' = [pc EXCEPT ![t] = "idle"]
  /\ result' = [result EXCEPT ![t] = [message |-> message, tuple_message |-> ""]]

\* publish_article returns what it made of _safe_file_operation's tuple
ReturnsTuple(t, tuple) ==
  /\ pc' = [pc EXCEPT ![t] = "idle"]
  /\ result' = [result EXCEPT ![t] = [message |-> Unpacked(tuple),
                                      tuple_message |-> tuple.message]]

\* publish_article up to the call of _safe_file_operation
PublishStart(t, input) ==
  /\ pc[t] = "idle"
  /\ target' = [target EXCEPT ![t] = input]
  /\ polls' = [polls EXCEPT ![t] = 0]
  /\ loaded' = [loaded EXCEPT ![t] = NoPost]
  /\ IF ~is_safe_path(Absolutize(input))
     THEN Returns(t, "forbidden")
     ELSE IF ~FileExists(Resolve(Absolutize(input)))
          THEN Returns(t, "not_found")
          ELSE /\ pc' = [pc EXCEPT ![t] = "lock"]
               /\ result' = [result EXCEPT ![t] = Pending]
  /\ UNCHANGED <<fs, fs_changed, cachevars, lock, write_count>>

\* a request handler calls publish_article
PublishCall(t, input) == PublishStart(t, input) /\ UNCHANGED auxvars

\* one round of the loop of _safe_file_operation: open, flock, or sleep
TryLock(t) ==
  /\ pc[t] = "lock"
  /\ LET f == TargetFile(t) IN
     IF ~FileExists(f)
     THEN \* open() raises FileNotFoundError: "file access error", 2 values
          /\ ReturnsTuple(t, Tuple2("file_access_error"))
          /\ polls' = [polls EXCEPT ![t] = 0]
          /\ UNCHANGED lock
     ELSE IF LockFree(f)
          THEN /\ lock' = [lock EXCEPT ![f] = t]
               /\ pc' = [pc EXCEPT ![t] = "locked"]
               /\ polls' = [polls EXCEPT ![t] = 0]
               /\ UNCHANGED result
          ELSE \* BlockingIOError: time.sleep(0.1), then the loop condition
               /\ IF polls[t] + 1 >= MaxLockPolls
                  THEN /\ ReturnsTuple(t, Tuple2("lock_timeout"))
                       /\ polls' = [polls EXCEPT ![t] = 0]
                  ELSE /\ polls' = [polls EXCEPT ![t] = polls[t] + 1]
                       /\ UNCHANGED <<pc, result>>
               /\ UNCHANGED lock
  /\ UNCHANGED <<fs, fs_changed, cachevars, target, loaded, write_count, auxvars>>

\* variant: the file is closed without the lock being dropped
Unlock_Keep(f, t) == lock

\* leaving "with open(...) as f" closes the file, which drops its flock
Unlock(f, t) == [lock EXCEPT ![f] = IF lock[f] = t THEN "none" ELSE lock[f]]

\* publish_operation, first half: frontmatter.load and the draft check
Load(t, utc) ==
  /\ pc[t] = "locked"
  /\ LET f == TargetFile(t) IN
     IF ~FileExists(f)
     THEN \* frontmatter.load raises, caught inside publish_operation
          /\ ReturnsTuple(t, Tuple3(FALSE, "publish_failed"))
          /\ lock' = Unlock(f, t)
          /\ UNCHANGED loaded
     ELSE IF AlreadyPublished(fs[f].doc)
          THEN /\ ReturnsTuple(t, Tuple3(FALSE, "already_published"))
               /\ lock' = Unlock(f, t)
               /\ UNCHANGED loaded
          ELSE /\ loaded' = [loaded EXCEPT ![t] = PublishedDoc(fs[f].doc, utc)]
               /\ pc' = [pc EXCEPT ![t] = "dump"]
               /\ UNCHANGED <<result, lock>>
  /\ UNCHANGED <<fs, fs_changed, cachevars, target, polls, write_count, auxvars>>

\* publish_operation, second half: frontmatter.dump, then the "with" block
\* closes the file and drops the lock
Dump(t, m) ==
  /\ pc[t] = "dump"
  /\ LET f == TargetFile(t) IN
     /\ fs' = [fs EXCEPT ![f] = File(loaded[t], m)]
     /\ write_count' = [write_count EXCEPT ![f] = write_count[f] + 1]
     /\ lock' = Unlock(f, t)
  /\ fs_changed' = TRUE
  /\ pc' = [pc EXCEPT ![t] = "invalidate"]
  /\ loaded' = [loaded EXCEPT ![t] = NoPost]
  /\ UNCHANGED <<cachevars, target, polls, result, auxvars>>

\* "if result and self.use_cache and self.cache_service: invalidate_post",
\* then "return result, message, operation_id"
InvalidateAndReturn(t) ==
  /\ pc[t] = "invalidate"
  /\ db' = invalidate_post(db, Abs(Absolutize(target[t])))
  /\ last' = Returned("invalidate", TargetFile(t), FALSE)
  /\ ReturnsTuple(t, Tuple3(TRUE, "published"))
  /\ UNCHANGED <<fs, fs_changed, initialized, target, polls, loaded, lock,
                 write_count, auxvars>>

\* another process takes or drops an flock on a file
ExternalFiles == {FA}

ExternalLock(f) ==
  /\ lock[f] = "none"
  /\ lock' = [lock EXCEPT ![f] = "ext"]
  /\ UNCHANGED <<fs, fs_changed, cachevars, pc, target, polls, loaded, result,
                 write_count, auxvars>>

ExternalUnlock(f) ==
  /\ lock[f] = "ext"
  /\ lock' = [lock EXCEPT ![f] = "none"]
  /\ UNCHANGED <<fs, fs_changed, cachevars, pc, target, polls, loaded, result,
                 write_count, auxvars>>

\* ------------------------------------------------------------- bulk publish
\* the thread that serves the bulk request
BulkThread == "t1"

BulkPaths == {Rel(<<SegPost, SegA>>), Rel(<<SegPost, SegB>>), Abs(FO)}

BulkInputs == UNION {[1..n -> BulkPaths] : n \in 0..MaxBulkLen}

\* what the path of an item is when publish_article is called on it
KindOf(input) ==
  LET f == Resolve(Absolutize(input)) IN
  IF ~is_safe_path(Absolutize(input)) THEN "forbidden"
  ELSE IF ~FileExists(f) THEN "not_found"
  ELSE IF fs[f].doc.draft = "true" THEN "draft"
  ELSE IF fs[f].doc.draft = "false" THEN "published"
  ELSE "no_draft_key"

\* bulk_publish_articles(file_paths) up to the loop
BulkCall(file_paths) ==
  /\ ~bulk.active
  /\ bulk' = [active |-> TRUE, returned |-> FALSE, file_paths |-> file_paths,
              i |-> 1, results |-> <<>>, published_count |-> 0,
              failed_count |-> 0,
              attempts |-> [j \in 1..Len(file_paths) |-> 0],
              kinds |-> <<>>, causes |-> <<>>]
  /\ UNCHANGED <<fs, fs_changed, cachevars, pubvars, sync, pending, ret, table, extvars>>

\* "success, message, _ = self.publish_article(file_path)": the call
BulkPublish ==
  /\ bulk.active /\ ~bulk.returned
  /\ bulk.i <= Len(bulk.file_paths)
  /\ result[BulkThread] = NoResult
  /\ PublishStart(BulkThread, bulk.file_paths[bulk.i])
  /\ bulk' = [bulk EXCEPT !.attempts[bulk.i] = @ + 1,
                          !.kinds = Append(@, KindOf(bulk.file_paths[bulk.i]))]
  /\ UNCHANGED <<sync, pending, ret, table, extvars>>

\* "for file_path in file_paths": the next item, whatever became of this one
NextItem(i, success, n) == i + 1

\* the rest of the loop body once publish_article has returned
BulkCollect ==
  /\ bulk.active /\ ~bulk.returned
  /\ pc[BulkThread] = "idle"
  /\ result[BulkThread] # NoResult
  /\ LET success == result[BulkThread].message = "published"
         message == result[BulkThread].message
         item == [file_path |-> bulk.file_paths[bulk.i],
                  success   |-> success,
                  message   |-> IF ~success THEN message ELSE "None",
                  published_at |-> IF success THEN "now" ELSE "None"]
     IN bulk' = [bulk EXCEPT
                   !.results = Append(@, item),
                   !.published_count = IF success THEN @ + 1 ELSE @,
                   !.failed_count = IF success THEN @ ELSE @ + 1,
                   !.causes = Append(@, result[BulkThread].tuple_message),
                   !.i = NextItem(@, success, Len(bulk.file_paths))]
  /\ result' = [result EXCEPT ![BulkThread] = NoResult]
  /\ UNCHANGED <<fs, fs_changed, cachevars, pc, target, polls, loaded, lock,
                 write_count, sync, pending, ret, table, extvars>>

\* variant: the batch counts as a success whatever failed
BulkSuccess_Any(failed_count) == TRUE

\* 'success': failed_count == 0
BulkSuccess(failed_count) == failed_count = 0

\* the dict bulk_publish_articles returns
BulkResult ==
  [success         |-> BulkSuccess(bulk.failed_count),
   total_count     |-> Len(bulk.file_paths),
   published_count |-> bulk.published_count,
   failed_count    |-> bulk.failed_count,
   results         |-> bulk.results,
   duration_ms     |-> 0]

BulkReturn ==
  /\ bulk.active /\ ~bulk.returned
  /\ bulk.i > Len(bulk.file_paths)
  /\ ret' = [op |-> "bulk_publish", value |-> BulkResult]
  /\ bulk' = [bulk EXCEPT !.returned = TRUE]
  /\ UNCHANGED <<fs, fs_changed, cachevars, pubvars, sync, pending, table, extvars>>

PublishInputs ==
  {Rel(<<SegPost, SegA>>), Abs(FA), Rel(<<SegPost, SegB>>),
   Rel(<<DotDot, SegOutside, SegE>>), Abs(FO), Abs(FX)}

Nows == 0..MaxNow

\* ------------------------------------------------------------ read calls
\* "is_draft = post.get('draft', True)"
StatusDraft(doc) == IF doc.draft = "absent" THEN TRUE ELSE doc.draft = "true"

\* variant: the publishDate is reported whatever the draft flag says
LastPublished_Always(doc, is_draft) == doc.publishDate

\* "post.get('publishDate') if not is_draft else None"
LastPublished(doc, is_draft) == IF ~is_draft THEN doc.publishDate ELSE NoDate

\* PostService.get_publish_status(file_path)
get_publish_status(input) ==
  LET file_path == Absolutize(input)
      NoStatus  == [error |-> "none", is_draft |-> FALSE, is_publishable |-> FALSE,
                    last_published |-> NoDate, publish_errors |-> <<>>]
  IN IF ~is_safe_path(file_path)
     THEN [NoStatus EXCEPT !.error = "forbidden"]
     ELSE IF ~FileExists(Resolve(file_path))
          THEN [NoStatus EXCEPT !.error = "not_found"]
          ELSE LET post     == fs[Resolve(file_path)].doc
                   is_draft == StatusDraft(post)
               IN [error          |-> "none",
                   is_draft       |-> is_draft,
                   is_publishable |-> is_draft,
                   last_published |-> LastPublished(post, is_draft),
                   publish_errors |-> IF post.title = "" THEN <<"missing_title">>
                                      ELSE <<>>]

StatusInputs ==
  {Rel(<<SegPost, SegA>>), Abs(FB), Rel(<<DotDot, SegOutside, SegE>>), Abs(FX)}

GetPublishStatus(input) ==
  /\ ret' = [op |-> "status", input |-> input, value |-> get_publish_status(input)]
  /\ UNCHANGED <<fs, fs_changed, cachevars, pubvars, sync, pending, bulk, table, extvars>>

\* where a slice bound lands in a list of n items: a negative bound counts
\* from the end, and either kind is clamped to 0..n
SliceIndex(i, n) ==
  IF i < 0 THEN (IF i + n < 0 THEN 0 ELSE i + n)
  ELSE (IF i > n THEN n ELSE i)

\* all_posts[start:end]
Slice(all_posts, start, end) ==
  LET lo == SliceIndex(start, Len(all_posts))
      hi == SliceIndex(end, Len(all_posts))
  IN IF lo < hi THEN SubSeq(all_posts, lo + 1, hi) ELSE <<>>

\* variant: the last, partly filled page is not counted
TotalPages_Floor(total, per_page) == total \div per_page

\* "total_pages = (total + per_page - 1) // per_page"
TotalPages(total, per_page) == (total + per_page - 1) \div per_page

\* the pagination of CacheService.get_posts and PostService.get_posts,
\* applied to the filtered list all_posts
Paginate(all_posts, page, per_page) ==
  LET total       == Len(all_posts)
      total_pages == TotalPages(total, per_page)
      start       == (page - 1) * per_page
      end         == start + per_page
  IN [posts       |-> Slice(all_posts, start, end),
      total       |-> total,
      page        |-> page,
      per_page    |-> per_page,
      total_pages |-> total_pages,
      has_next    |-> page < total_pages,
      has_prev    |-> page > 1]

\* the filtered list of a query that matches total records
Records(total) == [i \in 1..total |-> i]

GetPage(total, page, per_page) ==
  /\ ret' = [op |-> "page", all_posts |-> Records(total),
             value |-> Paginate(Records(total), page, per_page)]
  /\ UNCHANGED <<fs, fs_changed, cachevars, pubvars, sync, pending, bulk, table, extvars>>

\* ---------------------------------------------------------------- Database
\* the posts table on its own: a sequence of rows in rowid order.  A row
\* keeps file_path, title, mod_time and the JSON texts of tags and
\* categories.
DbPaths == {FA, FB, FN}

TagA == <<"a">>
TagB == <<"b">>
TagC == <<"c">>
TagUpperA == <<"A">>
TagUnderscore == <<"_">>
TagQuoted == <<"a", Quote, "b">>
CatK == <<"k">>
CatM == <<"m">>
CatUpperK == <<"K">>

\* the post_data dicts upsert_post is called with, file_path left open
PostShapes ==
  {[title |-> "T", tags |-> <<TagA, TagB>>, categories |-> <<CatK>>, mod_time |-> 1],
   [title |-> "T", tags |-> <<TagA>>, categories |-> <<>>, mod_time |-> 1],
   [title |-> "U", tags |-> <<TagB, TagC>>, categories |-> <<CatK, CatM>>, mod_time |-> 2],
   [title |-> "U", tags |-> <<TagUpperA>>, categories |-> <<CatUpperK>>, mod_time |-> 1],
   [title |-> "T", tags |-> <<TagQuoted, TagA>>, categories |-> <<CatM, CatK>>, mod_time |-> 2]}

PostData == {[file_path |-> f, title |-> p.title, tags |-> p.tags,
              categories |-> p.categories, mod_time |-> p.mod_time] :
               f \in DbPaths, p \in PostShapes}

\* the values bound by upsert_post
TableRow(post_data) ==
  [file_path  |-> post_data.file_path,
   title      |-> post_data.title,
   tags       |-> JsonDumps(post_data.tags),
   categories |-> JsonDumps(post_data.categories),
   mod_time   |-> post_data.mod_time]

\* variant: file_path carries no UNIQUE constraint
Conflicts_Never(row, file_path) == FALSE

\* "file_path TEXT UNIQUE NOT NULL": a row stands in the way of a new one
\* with the same file_path
Conflicts(row, file_path) == row.file_path = file_path

RowsAt(t, file_path) == SelectSeq(t, LAMBDA r : r.file_path = file_path)

\* INSERT OR REPLACE: the rows in the way are removed, the new row gets a
\* fresh rowid
InsertOrReplace(t, row) ==
  Append(SelectSeq(t, LAMBDA r : ~Conflicts(r, row.file_path)), row)

\* variant: the statement has no WHERE clause
DeleteWhere_All(t, file_path) == <<>>

\* DELETE FROM posts WHERE file_path = ?
DeleteWhere(t, file_path) == SelectSeq(t, LAMBDA r : r.file_path # file_path)

\* Database._row_to_dict on a row of the table
TableRowToDict(row) ==
  [file_path |-> row.file_path, title |-> row.title,
   tags |-> JsonLoads(row.tags), categories |-> JsonLoads(row.categories),
   mod_time |-> row.mod_time]

\* Database.get_post: fetchone() of the rows with this file_path
SelectPost(t, file_path) ==
  IF RowsAt(t, file_path) = <<>> THEN [found |-> FALSE]
  ELSE [found |-> TRUE, post |-> TableRowToDict(RowsAt(t, file_path)[1])]

\* ASCII letters fold to lower case under LIKE
Lower(ch) ==
  CASE ch = "A" -> "a"
    [] ch = "B" -> "b"
    [] ch = "C" -> "c"
    [] ch = "K" -> "k"
    [] ch = "M" -> "m"
    [] OTHER -> ch

\* SQLite's "text LIKE pattern": % stands for any run of characters, _ for
\* any one character, letters compare without case
RECURSIVE Like(_, _)
Like(text, pattern) ==
  IF pattern = <<>> THEN text = <<>>
  ELSE IF Head(pattern) = "%"
       THEN Like(text, Tail(pattern))
            \/ (text # <<>> /\ Like(Tail(text), pattern))
  ELSE /\ text # <<>>
       /\ (Head(pattern) = "_" \/ Lower(Head(pattern)) = Lower(Head(text)))
       /\ Like(Tail(text), Tail(pattern))

\* f'%"{tag}"%'
FilterPattern(value) == <<"%", Quote>> \o value \o <<Quote, "%">>

\* Database.search_posts with a tag or a category filter and no query; the
\* ORDER BY of the statement is left out
search_posts(t, field, value) ==
  LET hits == SelectSeq(t, LAMBDA r : Like(r[field], FilterPattern(value)))
  IN [i \in 1..Len(hits) |-> TableRowToDict(hits[i])]

\* "tag_count[tag] = tag_count.get(tag, 0) + 1" on a dict that keeps its
\* keys in the order they came in
Incr(counts, name) ==
  IF \E i \in 1..Len(counts) : counts[i].name = name
  THEN [i \in 1..Len(counts) |->
          IF counts[i].name = name
          THEN [name |-> name, count |-> counts[i].count + 1]
          ELSE counts[i]]
  ELSE Append(counts, [name |-> name, count |-> 1])

RECURSIVE CountItems(_, _)
CountItems(counts, items) ==
  IF items = <<>> THEN counts
  ELSE CountItems(Incr(counts, Head(items)), Tail(items))

\* the loop over the fetched rows
RECURSIVE CountRows(_, _)
CountRows(counts, texts) ==
  IF texts = <<>> THEN counts
  ELSE CountRows(CountItems(counts, JsonLoads(Head(texts))), Tail(texts))

\* variant: an entry goes ahead of the entries with the same count
StaysAhead_Strict(x, e) == x.count > e.count

\* sort(key=count, reverse=True) is stable: an entry stays ahead of a later
\* entry whose count is not larger
StaysAhead(x, e) == x.count >= e.count

SortedInsert(sorted, e) ==
  LET ahead == Cardinality({i \in 1..Len(sorted) : StaysAhead(sorted[i], e)})
  IN SubSeq(sorted, 1, ahead) \o <<e>> \o SubSeq(sorted, ahead + 1, Len(sorted))

RECURSIVE SortByCount(_, _)
SortByCount(sorted, counts) ==
  IF counts = <<>> THEN sorted
  ELSE SortByCount(SortedInsert(sorted, Head(counts)), Tail(counts))

\* Database.get_all_tags / get_all_categories over the texts the SELECT
\* handed back, in the order it handed them back
CountList(texts) == SortByCount(<<>>, CountRows(<<>>, texts))

DbUpsert(post_data) ==
  /\ table' = InsertOrReplace(table, TableRow(post_data))
  /\ last' = [Returned("upsert_post", post_data, FALSE) EXCEPT
                !.update_count = 1,
                !.delete_count = Len(table) + 1 - Len(table')]
  /\ UNCHANGED <<fs, fs_changed, db, initialized, pubvars, sync, pending, bulk, ret, extvars>>

DbDelete(file_path) ==
  /\ table' = DeleteWhere(table, file_path)
  /\ last' = [Returned("delete_post", file_path, FALSE) EXCEPT
                !.delete_count = Len(table) - Len(table')]
  /\ UNCHANGED <<fs, fs_changed, db, initialized, pubvars, sync, pending, bulk, ret, extvars>>

DbGetPost(file_path) ==
  /\ ret' = [op |-> "get_post", file_path |-> file_path,
             value |-> SelectPost(table, file_path)]
  /\ UNCHANGED <<fs, fs_changed, cachevars, pubvars, sync, pending, bulk, table, extvars>>

DbFields == {"tags", "categories"}

\* "SELECT tags FROM posts" has no ORDER BY: the rows come in the order the
\* engine picks
DbGetCounts(field, order) ==
  LET texts == [i \in 1..Len(table) |-> table[order[i]][field]] IN
  /\ ret' = [op |-> "counts", field |-> field,
             rows |-> [i \in 1..Len(texts) |-> JsonLoads(texts[i])],
             value |-> CountList(texts)]
  /\ UNCHANGED <<fs, fs_changed, cachevars, pubvars, sync, pending, bulk, table, extvars>>

DbFilters == {TagA, TagC, TagUpperA, TagUnderscore, CatK}

DbSearch(field, value) ==
  /\ ret' = [op |-> "search", field |-> field, filter |-> value,
             value |-> search_posts(table, field, value)]
  /\ UNCHANGED <<fs, fs_changed, cachevars, pubvars, sync, pending, bulk, table, extvars>>

\* ------------------------------------------------- parser, field by field
\* Python values a tags or categories field can hold
PyList(items) == [type |-> "list", items |-> items]
PyStr(chars) == [type |-> "str", chars |-> chars]
PyNone == [type |-> "none"]

\* what the front matter says under the key: a list, a bare string, no
\* key at all, or the key with nothing behind it
MetaShapes ==
  {[kind |-> "list", value |-> <<TagA, TagB>>],
   [kind |-> "list", value |-> <<>>],
   [kind |-> "string", value |-> TagA],
   [kind |-> "string", value |-> <<>>],
   [kind |-> "absent"],
   [kind |-> "null"]}

\* metadata.get('tags', []): the default stands in for a missing key only
MetadataGet(meta) ==
  CASE meta.kind = "list" -> PyList(meta.value)
    [] meta.kind = "string" -> PyStr(meta.value)
    [] meta.kind = "absent" -> PyList(<<>>)
    [] meta.kind = "null" -> PyNone

\* "if isinstance(self.tags, str): self.tags = [self.tags]"
ParsedField(meta) ==
  LET got == MetadataGet(meta) IN
  IF got.type = "str" THEN PyList(<<got.chars>>) ELSE got

JsonNull == <<"n", "u", "l", "l">>

\* json.dumps(post_data.get('tags', [])) of upsert_post
JsonDumpsValue(v) ==
  CASE v.type = "list" -> JsonDumps(v.items)
    [] v.type = "str" -> <<Quote>> \o JsonEscape(v.chars) \o <<Quote>>
    [] v.type = "none" -> JsonNull

\* json.loads of _row_to_dict
JsonLoadsValue(text) ==
  IF text = JsonNull THEN PyNone
  ELSE IF Head(text) = "[" THEN PyList(JsonLoads(text))
  ELSE PyStr(JsonLoads(text)[1])

\* one field from the front matter through the parser, upsert_post and a
\* query
Materialize(field, meta) ==
  /\ ret' = [op |-> "materialize", field |-> field, meta |-> meta,
             parsed |-> ParsedField(meta),
             stored |-> JsonDumpsValue(ParsedField(meta)),
             loaded |-> JsonLoadsValue(JsonDumpsValue(ParsedField(meta)))]
  /\ UNCHANGED <<fs, fs_changed, cachevars, pubvars, sync, pending, bulk, table, extvars>>

ExcerptLimit == 200
Ellipsis == <<".", ".", ".">>
Blank == " "

Repeat(ch, n) == [i \in 1..n |-> ch]

\* str.strip()
Strip(chars) ==
  LET inked == {i \in 1..Len(chars) : chars[i] # Blank} IN
  IF inked = {} THEN <<>>
  ELSE SubSeq(chars, CHOOSE i \in inked : \A j \in inked : i <= j,
                     CHOOSE i \in inked : \A j \in inked : i >= j)

\* the characters of the class [*_`]; the grave accent is written "g"
EmphasisMarks == {"*", "_", "g"}

\* re.sub of that class by '' on text
StripMarks(chars) == SelectSeq(chars, LAMBDA ch : ch \notin EmphasisMarks)

Take(chars, n) == IF Len(chars) > n THEN SubSeq(chars, 1, n) ELSE chars

\* BlogPost._generate_excerpt on self.content; of the markdown syntax it
\* removes, the emphasis marks are kept here
generate_excerpt(content) ==
  IF content = <<>> THEN <<>>
  ELSE LET text    == StripMarks(content)
           excerpt == Take(Strip(text), ExcerptLimit)
       IN IF Len(text) > ExcerptLimit THEN excerpt \o Ellipsis ELSE excerpt

\* bodies: emphasis marks, blanks, a run of letters, blanks
Body(marks, lead, core, trail) ==
  Repeat("*", marks) \o Repeat(Blank, lead) \o Repeat("a", core)
    \o Repeat(Blank, trail)

CoreLengths == {0, 1, 150, 199, 200, 201, 250}
BlankLengths == {0, 1, 60}

GenerateExcerpt(marks, lead, core, trail) ==
  /\ ret' = [op |-> "excerpt", content |-> Body(marks, lead, core, trail),
             value |-> generate_excerpt(Body(marks, lead, core, trail))]
  /\ UNCHANGED <<fs, fs_changed, cachevars, pubvars, sync, pending, bulk, table, extvars>>

\* ------------------------------------------------------- ordering by date
\* what BlogPost.date can hold after _parse: None, a datetime without or
\* with a UTC offset, or the datetime.date YAML makes of a bare
\* "date: 2024-01-01"
NoneDate == [kind |-> "none"]
DateTime(day, hour, offset) ==
  [kind |-> "datetime", day |-> day, hour |-> hour, offset |-> offset]
DateOnly(day) == [kind |-> "date", day |-> day]

DateValues ==
  {NoneDate, DateTime(1, 10, "naive"), DateTime(2, 10, "naive"),
   DateTime(1, 23, "-05:00"), DateTime(2, 1, "+08:00"), DateOnly(1)}

\* get_sort_key reads post.date.tzinfo, which a datetime.date does not have
SortKeyRaises(date) == date.kind = "date"

\* get_sort_key: datetime.min for no date, else the date with tzinfo dropped
get_sort_key(date) ==
  IF date.kind = "none" THEN <<0, 0>> ELSE <<date.day, date.hour>>

\* the TEXT sqlite3 stores for a datetime, "YYYY-MM-DD HH:MM:SS+HH:MM", as
\* far as comparison goes: '+' sorts before '-'
DateText(date) ==
  <<date.day, date.hour,
    CASE date.offset = "naive" -> 0 [] date.offset = "+08:00" -> 1
      [] date.offset = "-05:00" -> 2>>

TupleLess(a, b) ==
  \E i \in 1..Len(a) : a[i] < b[i] /\ \A j \in 1..(i - 1) : a[j] = b[j]

\* "ORDER BY date DESC": NULL comes last, text compares byte by byte
ComesBefore(a, b) ==
  IF a.kind = "none" THEN FALSE
  ELSE IF b.kind = "none" THEN TRUE
  ELSE TupleLess(DateText(b), DateText(a))

OrderedByDateDesc(rows) ==
  \A i, j \in 1..Len(rows) : i < j => ~ComesBefore(rows[j], rows[i])

\* get_posts() of a cache over files with these dates: initialize sorts
\* the parsed posts in get_blog_posts, stores them, and get_all_posts reads
\* them back in an order the ORDER BY allows
ListPosts(dates, order) ==
  LET rows == [i \in 1..Len(dates) |-> dates[order[i]]] IN
  /\ IF \E i \in 1..Len(dates) : SortKeyRaises(dates[i])
     THEN ret' = [op |-> "list", dates |-> dates, raised |-> TRUE, value |-> <<>>]
     ELSE /\ OrderedByDateDesc(rows)
          /\ ret' = [op |-> "list", dates |-> dates, raised |-> FALSE,
                     value |-> rows]
  /\ UNCHANGED <<fs, fs_changed, cachevars, pubvars, sync, pending, bulk, table, extvars>>

\* --------------------------------------------------------------- GitService
\* how the repository and the git commands of one call turn out
GitOutcomes ==
  [is_repo : BOOLEAN, status_ok : BOOLEAN, has_changes : BOOLEAN,
   add_ok : BOOLEAN, commit_ok : BOOLEAN, branch_ok : BOOLEAN,
   push_ok : BOOLEAN]

Step(name, success) == [name |-> name, success |-> success]

\* variant: a failed step does not end the call
StepStops_Never(success) == FALSE

\* "if not add_success: return {...}", the same after every step
StepStops(success) == ~success

\* GitService.push: the current branch is asked for first, and without it
\* nothing is pushed
push(o) ==
  IF ~o.branch_ok THEN [success |-> FALSE, ran |-> <<"branch">>]
  ELSE [success |-> o.push_ok, ran |-> <<"branch", "push">>]

\* GitService.publish_system: the steps it records, the git commands it
\* has run, and what it returns
publish_system(o) ==
  LET s1 == <<Step("check_status", o.status_ok)>>
      s2 == s1 \o <<Step("add", o.add_ok)>>
      s3 == s2 \o <<Step("commit", o.commit_ok)>>
      s4 == s3 \o <<Step("push", push(o).success)>>
      Out(success, steps, ran, message) ==
        [success |-> success, steps |-> steps, ran |-> ran, message |-> message]
  IN IF ~o.is_repo THEN Out(FALSE, <<>>, <<>>, "not_a_repo")
     ELSE IF StepStops(o.status_ok)
          THEN Out(FALSE, s1, <<"status">>, "status_failed")
     ELSE IF ~o.has_changes
          THEN Out(FALSE, s1, <<"status">>, "no_changes")
     ELSE IF StepStops(o.add_ok)
          THEN Out(FALSE, s2, <<"status", "add">>, "add_failed")
     ELSE IF StepStops(o.commit_ok)
          THEN Out(FALSE, s3, <<"status", "add", "commit">>, "commit_failed")
     ELSE IF StepStops(push(o).success)
          THEN Out(FALSE, s4, <<"status", "add", "commit">> \o push(o).ran,
                   "push_failed")
     ELSE Out(TRUE, s4, <<"status", "add", "commit">> \o push(o).ran,
              "published")

PublishSystem(o) ==
  /\ ret' = [op |-> "publish_system", outcomes |-> o, value |-> publish_system(o)]
  /\ UNCHANGED <<fs, fs_changed, cachevars, pubvars, sync, pending, bulk, table, extvars>>

\* ------------------------------------------------------------- Index keys
\* the working directory of the process: "/"
Cwd == <<>>

\* ways the content root /c can be handed to CacheService: absolute and
\* normalised, relative to the working directory, absolute through ".."
RootForms ==
  {Abs(content_dir), Rel(content_dir), Abs(<<SegOutside, DotDot>> \o content_dir)}

\* str(path): pathlib keeps ".." segments and the relative form as given
PathStr(path) == IF path.abs THEN Str(path.segs) ELSE RelStr(path.segs)

\* Path.resolve(): absolute, against the working directory, ".." removed
ResolvePath(path) ==
  Abs(Resolve(IF path.abs THEN path.segs ELSE Cwd \o path.segs))

\* left / right of pathlib: an absolute right operand replaces the left
Join(left, right) ==
  IF right.abs THEN right ELSE [abs |-> left.abs, segs |-> left.segs \o right.segs]

\* the key full reconciliation stores for the article name in the post
\* directory: str(post.file_path), the path as rglob() under
\* Path(content_dir) / "post" yields it
initialize_key(root, name) == PathStr(Join(root, Rel(<<SegPost, name>>)))

\* the key invalidate_post computes: content_dir / file_path unless
\* absolute, then str(Path(file_path).resolve())
invalidate_key(root, input) == PathStr(ResolvePath(Join(root, input)))

\* the spellings under which a caller can name the article
KeyInputs(root, name) ==
  {Rel(<<SegPost, name>>), Abs(content_dir \o <<SegPost, name>>),
   ResolvePath(Join(root, Rel(<<SegPost, DotDot, SegPost, name>>)))}

\* one article, indexed by initialize and then named to invalidate_post
IndexKeys(root, name, input) ==
  /\ ret' = [op |-> "index_keys", root |-> root, name |-> name, input |-> input,
             initialize |-> initialize_key(root, name),
             invalidate |-> invalidate_key(root, input)]
  /\ UNCHANGED <<fs, fs_changed, cachevars, pubvars, sync, pending, bulk, table,
                 extvars>>

\* a path at which nothing lies, outside the content root
SegNonexistent == <<"n", "o">>
SegPath == <<"p", ".", "m", "d">>
FMissing == <<SegNonexistent, SegPath>>

\* ------------------------------------------------ file-writing operations
\* content saved through the editor
DocSaved == [DocDraft EXCEPT !.title = "S"]
SaveDocs == {DocSaved, DocPublished}

SaveInputs ==
  {Rel(<<SegPost, SegA>>), Abs(FN), Abs(FX), Rel(<<DotDot, SegOutside, SegE>>)}

SegIndex == <<"i", "n", "d", "e", "x", ".", "m", "d">>
SegPics  == <<"p", "i", "c", "s">>
SegImage == <<"i", ".", "p", "n", "g">>

\* str(datetime.now().date()) + "-"
DatePrefix == <<"D", "-">>

\* a title, cut at its "/" characters
Titles == {<< <<"x">> >>, << <<"x">>, DotDot, DotDot, DotDot, SegOutside >>,
           << <<"y">>, <<"z">> >>}

Parent(path) == SubSeq(path, 1, Len(path) - 1)

Ancestors(path) == {SubSeq(path, 1, k) : k \in 0..(Len(path) - 1)}

\* the directories there are: the root, those the files lie in, and those
\* the service has made
ExistingDirs ==
  dirs \cup {content_dir, post_dir}
       \cup UNION {Ancestors(f) : f \in {g \in AllFiles : fs[g].exists}}

\* the operating system can walk the path up to its last segment: every
\* prefix names a directory, ".." included
Traversable(path) ==
  \A k \in 0..(Len(path) - 1) : Resolve(SubSeq(path, 1, k)) \in ExistingDirs

\* what a call has done to the disk: the directories it made and the files
\* it wrote, as resolved paths
Effect(op, success, created, written) ==
  [op |-> op, success |-> success, created |-> created, written |-> written]

\* PostService.save_file: the safe-path check, mkdir(parents=True), a plain
\* open(file_path, 'w') and write, invalidate_post
SaveFile(input, d, m) ==
  /\ LET file_path == Absolutize(input)
         f == Resolve(file_path)
     IN IF ~is_safe_path(file_path) \/ f \notin AllFiles
        THEN /\ ret' = Effect("save_file", FALSE, {}, {})
             /\ UNCHANGED <<fs, fs_changed, cachevars, dirs>>
        ELSE /\ fs' = [fs EXCEPT ![f] = File(d, m)]
             /\ fs_changed' = TRUE
             /\ dirs' = dirs \cup (Ancestors(f) \ ExistingDirs)
             /\ db' = invalidate_post(db, Abs(file_path))
             /\ last' = Returned("invalidate", f, FALSE)
             /\ ret' = Effect("save_file", TRUE, Ancestors(f) \ ExistingDirs, {f})
             /\ UNCHANGED initialized
  /\ UNCHANGED <<pubvars, sync, pending, bulk, table, hugo, procs, calls>>

\* "post_folder = self.post_dir / post_name"
PostFolder(title) == post_dir \o <<DatePrefix \o Head(title)>> \o Tail(title)

\* PostService.create_post: post_folder.mkdir(exist_ok=True), index.md
\* written into it; invalidate_post finds the file and ends in the
\* TypeError of BlogPost(...), so the Index stays as it is
CreatePost(title) ==
  /\ LET post_folder == PostFolder(title)
         folder == Resolve(post_folder)
     IN IF ~Traversable(post_folder)
        THEN \* mkdir raises FileNotFoundError
             /\ ret' = Effect("create_post", FALSE, {}, {})
             /\ UNCHANGED dirs
        ELSE /\ dirs' = dirs \cup ({folder} \ ExistingDirs)
             /\ ret' = Effect("create_post", TRUE, {folder} \ ExistingDirs,
                              {folder \o <<SegIndex>>})
  /\ UNCHANGED <<fs, fs_changed, cachevars, pubvars, sync, pending, bulk,
                 table, hugo, procs, calls>>

ImageInputs == {Rel(<<SegPost, SegA>>), Abs(FO), Abs(FMissing)}

\* PostService.save_image: pics_dir.mkdir(exist_ok=True) beside the
\* article, the upload saved into it
SaveImage(input) ==
  /\ LET pics_dir == Parent(Absolutize(input)) \o <<SegPics>>
         pics == Resolve(pics_dir)
     IN IF ~Traversable(pics_dir)
        THEN /\ ret' = Effect("save_image", FALSE, {}, {})
             /\ UNCHANGED dirs
        ELSE /\ dirs' = dirs \cup ({pics} \ ExistingDirs)
             /\ ret' = Effect("save_image", TRUE, {pics} \ ExistingDirs,
                              {pics \o <<SegImage>>})
  /\ UNCHANGED <<fs, fs_changed, cachevars, pubvars, sync, pending, bulk,
                 table, hugo, procs, calls>>

\* publish_operation, second half, the write failing: frontmatter.dump
\* raises before it has opened the file, or after open(fd, 'w') has
\* truncated it; publish_operation catches it and returns the failure
DumpFails(t, opened, m) ==
  /\ pc[t] = "dump"
  /\ LET f == TargetFile(t) IN
     /\ fs' = IF opened THEN [fs EXCEPT ![f] = File(DocEmpty, m)] ELSE fs
     /\ fs_changed' = (fs_changed \/ opened)
     /\ write_count' = [write_count EXCEPT ![f] = write_count[f] + 1]
     /\ lock' = Unlock(f, t)
  /\ ReturnsTuple(t, Tuple3(FALSE, "publish_failed"))
  /\ loaded' = [loaded EXCEPT ![t] = NoPost]
  /\ UNCHANGED <<cachevars, target, polls, auxvars>>

\* ------------------------------------------------- storage errors, routes
\* invalidate_post while every Database call raises: the delete of the
\* missing-file branch is outside the try and raises to the caller; in the
\* other branch whatever is raised inside the try, by BlogPost(...) or by
\* the upsert of _cache_post, ends in "except Exception", which prints and
\* returns
InvalidateRaises(input) == ~FileExists(Resolve(Absolutize(input)))

StorageError(caller, raised) ==
  [op |-> "storage_error", caller |-> caller, raised |-> raised]

\* CacheService.initialize past the guard, the Database raising: nothing
\* catches it, _initialized is not set
FailingInitialize ==
  /\ ~GuardReturns(FALSE)
  /\ ret' = StorageError("initialize", TRUE)
  /\ UNCHANGED <<fs, fs_changed, cachevars, pubvars, sync, pending, bulk, table, extvars>>

\* a query on an initialized cache, the Database raising
FailingQuery ==
  /\ ret' = StorageError("get_posts", TRUE)
  /\ UNCHANGED <<fs, fs_changed, cachevars, pubvars, sync, pending, bulk, table, extvars>>

FailingInvalidate(input) ==
  /\ ret' = StorageError("invalidate_post", InvalidateRaises(input))
  /\ UNCHANGED <<fs, fs_changed, cachevars, pubvars, sync, pending, bulk, table, extvars>>

\* the end of publish_article, the Database raising inside invalidate_post:
\* result is returned as _safe_file_operation gave it; what does get out of
\* invalidate_post ends in "except Exception" of publish_article
FailingPublishInvalidate(t) ==
  /\ pc[t] = "invalidate"
  /\ ret' = StorageError("publish_article", FALSE)
  /\ IF InvalidateRaises(Abs(Absolutize(target[t])))
     THEN ReturnsTuple(t, Tuple3(FALSE, "publish_failed"))
     ELSE ReturnsTuple(t, Tuple3(TRUE, "published"))
  /\ UNCHANGED <<fs, fs_changed, cachevars, target, polls, loaded, lock,
                 write_count, sync, pending, bulk, table, extvars>>

RouteInputs ==
  {Rel(<<SegPost, SegA>>), Rel(<<SegPost, SegB>>), Abs(FB), Abs(FMissing),
   Rel(<<DotDot, SegNonexistent, SegPath>>), Abs(FO)}

\* the status code the publish route answers a failure with
PublishStatusCode(message) ==
  IF message = "not_found" THEN 404
  ELSE IF message \in {"already_published", "forbidden"} THEN 409
  ELSE 400

\* the status code the status route answers an error with
StatusStatusCode(error) == IF error = "not_found" THEN 404 ELSE 400

Response(route, input, success, status_code) ==
  [op |-> "response", route |-> route, input |-> input, success |-> success,
   status_code |-> status_code]

ReturnsAtOnce(input) ==
  ~is_safe_path(Absolutize(input)) \/ ~FileExists(Resolve(Absolutize(input)))

\* POST /api/article/publish up to the return of publish_article or its
\* call of _safe_file_operation
PublishRoute(t, input) ==
  /\ PublishStart(t, input)
  /\ ret' = IF ReturnsAtOnce(input)
            THEN Response("publish", input, FALSE,
                          PublishStatusCode(IF ~is_safe_path(Absolutize(input))
                                            THEN "forbidden" ELSE "not_found"))
            ELSE ret
  /\ UNCHANGED <<sync, pending, bulk, table, extvars>>

\* GET /api/article/status
StatusRoute(input) ==
  LET status == get_publish_status(input) IN
  /\ ret' = IF status.error # "none"
            THEN Response("status", input, FALSE, StatusStatusCode(status.error))
            ELSE Response("status", input, TRUE, 200)
  /\ UNCHANGED <<fs, fs_changed, cachevars, pubvars, sync, pending, bulk, table, extvars>>

\* -------------------------------------------------------- HugoServerManager
MaxProcs == 3
MaxLogs == 2

\* request threads calling the manager
Callers == {"h1", "h2"}

NoProcess == 0

\* HugoServerManager.__init__
HugoIdle == [process |-> NoProcess, pid |-> NoProcess, is_running |-> FALSE,
             logs |-> 0]

CallIdle == [pc |-> "idle", op |-> "none", success |-> FALSE]

Answered(op, success) == [pc |-> "idle", op |-> op, success |-> success]

\* HugoServerManager._check_process_alive
check_process_alive ==
  /\ hugo.process # NoProcess
  /\ procs[hugo.process] = "alive"

\* _add_log: one more entry, the buffer capped
AddLog(logs) == IF logs < MaxLogs THEN logs + 1 ELSE MaxLogs

\* start(), its first statement: "if self.is_running and
\* self._check_process_alive(): return False, ..."
StartCheck(c) ==
  /\ calls[c].pc = "idle"
  /\ calls' = [calls EXCEPT ![c] =
                 IF hugo.is_running /\ check_process_alive
                 THEN Answered("start", FALSE)
                 ELSE [pc |-> "popen", op |-> "start", success |-> FALSE]]
  /\ UNCHANGED <<fs, fs_changed, cachevars, pubvars, sync, pending, bulk, ret,
                 table, dirs, hugo, procs>>

\* start(), the rest: subprocess.Popen, the fields, the emptied log with its
\* first entry; without a hugo binary Popen raises and nothing is set
StartPopen(c, found) ==
  /\ calls[c].pc = "popen"
  /\ IF found /\ Len(procs) < MaxProcs
     THEN /\ procs' = Append(procs, "alive")
          /\ hugo' = [process |-> Len(procs) + 1, pid |-> Len(procs) + 1,
                      is_running |-> TRUE, logs |-> AddLog(0)]
          /\ calls' = [calls EXCEPT ![c] = Answered("start", TRUE)]
     ELSE /\ calls' = [calls EXCEPT ![c] = Answered("start", FALSE)]
          /\ UNCHANGED <<hugo, procs>>
  /\ UNCHANGED <<fs, fs_changed, cachevars, pubvars, sync, pending, bulk, ret,
                 table, dirs>>

\* HugoServerManager.stop
Stop(c) ==
  /\ calls[c].pc = "idle"
  /\ IF ~hugo.is_running \/ hugo.process = NoProcess
     THEN /\ calls' = [calls EXCEPT ![c] = Answered("stop", FALSE)]
          /\ UNCHANGED <<hugo, procs>>
     ELSE /\ procs' = [procs EXCEPT ![hugo.process] = "exited"]
          /\ hugo' = [process |-> NoProcess, pid |-> NoProcess,
                      is_running |-> FALSE, logs |-> AddLog(hugo.logs)]
          /\ calls' = [calls EXCEPT ![c] = Answered("stop", TRUE)]
  /\ UNCHANGED <<fs, fs_changed, cachevars, pubvars, sync, pending, bulk, ret,
                 table, dirs>>

\* HugoServerManager.get_status: the fields are reset when the process is
\* found dead
GetStatus(c) ==
  /\ calls[c].pc = "idle"
  /\ hugo' = IF hugo.is_running /\ ~check_process_alive
             THEN [hugo EXCEPT !.process = NoProcess, !.pid = NoProcess,
                               !.is_running = FALSE]
             ELSE hugo
  /\ calls' = [calls EXCEPT ![c] = Answered("get_status", hugo'.is_running)]
  /\ UNCHANGED <<fs, fs_changed, cachevars, pubvars, sync, pending, bulk, ret,
                 table, dirs, procs>>

\* _monitor_logs: a line of the tracked process's output is appended
MonitorLogs ==
  /\ check_process_alive
  /\ hugo.logs < MaxLogs
  /\ hugo' = [hugo EXCEPT !.logs = AddLog(hugo.logs)]
  /\ UNCHANGED <<fs, fs_changed, cachevars, pubvars, sync, pending, bulk, ret,
                 table, dirs, procs, calls>>

\* a hugo process ends on its own
ProcessExits(p) ==
  /\ procs[p] = "alive"
  /\ procs' = [procs EXCEPT ![p] = "exited"]
  /\ UNCHANGED <<fs, fs_changed, cachevars, pubvars, sync, pending, bulk, ret,
                 table, dirs, hugo, calls>>

\* ----------------------------------------------------------- specification
NoBulk == [active |-> FALSE]
NoRet == [op |-> "none"]

AuxIdle ==
  /\ sync = [w \in Workers |-> NoSync]
  /\ pending = {}
  /\ bulk = NoBulk
  /\ ret = NoRet
  /\ table = <<>>
  /\ dirs = {}
  /\ hugo = HugoIdle
  /\ procs = <<>>
  /\ calls = [c \in Callers |-> CallIdle]

PubIdle ==
  /\ AuxIdle
  /\ pc = [t \in Threads |-> "idle"]
  /\ target = [t \in Threads |-> Abs(FA)]
  /\ polls = [t \in Threads |-> 0]
  /\ loaded = [t \in Threads |-> NoPost]
  /\ result = [t \in Threads |-> NoResult]
  /\ lock = [f \in AllFiles |-> "none"]
  /\ write_count = [f \in AllFiles |-> 0]

Init ==
  /\ PubIdle
  /\ fs \in {g \in [AllFiles -> {NoFile} \cup {File(d, 1) : d \in CacheDocs}] :
               /\ g[FT] = File(DocDraft, 1)
               /\ g[FN] = File(DocDraft, 1)
               /\ g[FX] = File(DocDraft, 1)
               /\ g[FO] = File(DocDraft, 1)}
  /\ db = [k \in AllFiles |-> NoRow]
  /\ initialized = FALSE
  /\ fs_changed = TRUE
  /\ last = [Returned("construct", <<>>, FALSE) EXCEPT !.clean = FALSE]

Next ==
  \/ \E force \in BOOLEAN : Initialize(force)
  \/ Refresh
  \/ GetPosts
  \/ GetAllTags
  \/ GetAllCategories
  \/ \E input \in InvalidateInputs : InvalidatePost(input)
  \/ \E f \in EnvFiles, d \in CacheDocs, m \in Mtimes : FsWrite(f, d, m)
  \/ \E f \in EnvFiles : FsDelete(f)
  \/ Restart

Spec == Init /\ [][Next]_vars

\* the publish path on its own: files as they lie when the threads start,
\* no editor at work, the Index not yet built
InitPublish ==
  /\ PubIdle
  /\ fs \in {g \in [AllFiles -> {NoFile} \cup {File(d, 1) : d \in PublishDocs}] :
               /\ g[FA].exists
               /\ g[FB] = NoFile
               /\ g[FT] = File(DocDraft, 1)
               /\ g[FN] = File(DocDraft, 1)
               /\ g[FX] = File(DocDraft, 1)
               /\ g[FO] = File(DocDraft, 1)}
  /\ db = [k \in AllFiles |-> NoRow]
  /\ initialized = FALSE
  /\ fs_changed = TRUE
  /\ last = [Returned("construct", <<>>, FALSE) EXCEPT !.clean = FALSE]

NextPublish ==
  \/ \E t \in Threads, input \in PublishInputs : PublishCall(t, input)
  \/ \E t \in Threads : TryLock(t)
  \/ \E t \in Threads, utc \in Nows : Load(t, utc)
  \/ \E t \in Threads, m \in Mtimes : Dump(t, m)
  \/ \E t \in Threads : InvalidateAndReturn(t)
  \/ \E f \in ExternalFiles : ExternalLock(f)
  \/ \E f \in ExternalFiles : ExternalUnlock(f)

SpecPublish == InitPublish /\ [][NextPublish]_vars

\* request threads running full reconciliations, queries and invalidations
\* side by side while one file is edited
InitSync ==
  /\ PubIdle
  /\ fs \in {g \in [AllFiles -> {NoFile} \cup {File(d, 1) : d \in SyncDocs}] :
               \A f \in AllFiles \ SyncFiles : g[f] = File(DocDraft, 1)}
  /\ db = [k \in AllFiles |-> NoRow]
  /\ initialized = FALSE
  /\ fs_changed = TRUE
  /\ last = [Returned("construct", <<>>, FALSE) EXCEPT !.clean = FALSE]

SyncOps == {"get_posts", "get_all_tags", "initialize"}

NextSync ==
  \/ \E w \in Workers, op \in SyncOps, force \in BOOLEAN :
        (force => op = "initialize") /\ SyncCall(w, op, force)
  \/ \E w \in Workers : SyncScan(w)
  \/ \E w \in Workers : SyncApply(w)
  \/ \E f \in SyncFiles, d \in SyncDocs, m \in Mtimes : SyncWrite(f, d, m)
  \/ \E f \in SyncFiles : SyncDelete(f)
  \/ \E f \in SyncFiles : SyncInvalidate(f)

SpecSync == InitSync /\ [][NextSync]_vars

\* one bulk request, with another process locking files now and then
InitBulk ==
  /\ PubIdle
  /\ fs \in {g \in [AllFiles -> {NoFile} \cup {File(d, 1) : d \in PublishDocs}] :
               /\ g[FA].exists
               /\ \A f \in AllFiles \ {FA, FB} : g[f] = File(DocDraft, 1)}
  /\ db = [k \in AllFiles |-> NoRow]
  /\ initialized = FALSE
  /\ fs_changed = TRUE
  /\ last = [Returned("construct", <<>>, FALSE) EXCEPT !.clean = FALSE]

NextBulk ==
  \/ \E file_paths \in BulkInputs : BulkCall(file_paths)
  \/ BulkPublish
  \/ TryLock(BulkThread)
  \/ \E utc \in Nows : Load(BulkThread, utc)
  \/ \E m \in Mtimes : Dump(BulkThread, m)
  \/ InvalidateAndReturn(BulkThread)
  \/ BulkCollect
  \/ BulkReturn
  \/ \E f \in ExternalFiles : ExternalLock(f)
  \/ \E f \in ExternalFiles : ExternalUnlock(f)

SpecBulk == InitBulk /\ [][NextBulk]_vars

\* read-only requests over files as they may lie on disk
ReadDocs == PublishDocs \cup {DocEmpty, DocPublishedUndated, DocUntitled}

InitRead ==
  /\ PubIdle
  /\ fs \in {g \in [AllFiles -> {NoFile} \cup {File(d, 1) : d \in ReadDocs}] :
               \A f \in AllFiles \ {FA} : g[f] = File(DocDraft, 1)}
  /\ db = [k \in AllFiles |-> NoRow]
  /\ initialized = FALSE
  /\ fs_changed = TRUE
  /\ last = [Returned("construct", <<>>, FALSE) EXCEPT !.clean = FALSE]

\* one request in each behaviour: a read leaves nothing behind that a later
\* read could see
NextRead ==
  \/ \E input \in StatusInputs : ret = NoRet /\ GetPublishStatus(input)
  \/ \E total \in 0..MaxTotal, per_page \in 1..MaxPerPage :
        \E page \in (0 - MaxBack)..(TotalPages(total, per_page) + 1) :
           ret = NoRet /\ GetPage(total, page, per_page)

SpecRead == InitRead /\ [][NextRead]_vars

\* the Database on its own: any run of upserts and deletes, then one read
InitDb ==
  /\ PubIdle
  /\ fs = [f \in AllFiles |-> NoFile]
  /\ db = [k \in AllFiles |-> NoRow]
  /\ initialized = FALSE
  /\ fs_changed = FALSE
  /\ last = [Returned("construct", <<>>, FALSE) EXCEPT !.clean = FALSE]

NextDb ==
  \/ \E post_data \in PostData : ret = NoRet /\ DbUpsert(post_data)
  \/ \E file_path \in DbPaths : ret = NoRet /\ DbDelete(file_path)
  \/ \E file_path \in DbPaths : ret = NoRet /\ DbGetPost(file_path)
  \/ \E field \in DbFields, order \in Permutations(1..Len(table)) :
        ret = NoRet /\ DbGetCounts(field, order)
  \/ \E field \in DbFields, value \in DbFilters :
        ret = NoRet /\ DbSearch(field, value)

SpecDb == InitDb /\ [][NextDb]_vars

\* the parser at work under a cache that reconciles: files that parse and
\* files that do not
ParseDocs == {DocDraft, DocPublished, DocBroken}

InitParse ==
  /\ PubIdle
  /\ fs \in {g \in [AllFiles -> {NoFile} \cup {File(d, 1) : d \in ParseDocs}] :
               \A f \in AllFiles \ EnvFiles : g[f] = File(DocBroken, 1)}
  /\ db = [k \in AllFiles |-> NoRow]
  /\ initialized = FALSE
  /\ fs_changed = TRUE
  /\ last = [Returned("construct", <<>>, FALSE) EXCEPT !.clean = FALSE]

NextParse ==
  \/ \E force \in BOOLEAN : Initialize(force)
  \/ GetPosts
  \/ \E f \in EnvFiles, d \in ParseDocs, m \in Mtimes : FsWrite(f, d, m)
  \/ \E f \in EnvFiles : FsDelete(f)
  \/ Restart

SpecParse == InitParse /\ [][NextParse]_vars

\* single fields and bodies put through the parser
NextFields ==
  \/ \E field \in DbFields, meta \in MetaShapes :
        ret = NoRet /\ Materialize(field, meta)
  \/ \E marks \in 0..1, lead \in BlankLengths, core \in CoreLengths,
        trail \in BlankLengths :
        ret = NoRet /\ GenerateExcerpt(marks, lead, core, trail)
  \/ \E n \in 1..MaxPosts :
        \E dates \in [1..n -> DateValues], order \in Permutations(1..n) :
           ret = NoRet /\ ListPosts(dates, order)
  \/ \E root \in RootForms, name \in {SegA, SegB} :
        \E input \in KeyInputs(root, name) :
           ret = NoRet /\ IndexKeys(root, name, input)

SpecFields == InitDb /\ [][NextFields]_vars

\* one publish_system call, the repository and git answering as they may
NextGit == \E o \in GitOutcomes : ret = NoRet /\ PublishSystem(o)

SpecGit == InitDb /\ [][NextGit]_vars

Writer == "t1"

\* rewrites of one file by publish that a run follows
MaxWrites == 1

WriteInputs == {Rel(<<SegPost, SegA>>), Abs(FN)}

\* one publish call at a time, while the editor saves files and creates
\* posts and a full reconciliation runs
NextWrite ==
  \/ \E input \in WriteInputs : PublishCall(Writer, input)
  \/ TryLock(Writer)
  \/ Load(Writer, MaxNow)
  \/ write_count[TargetFile(Writer)] < MaxWrites /\ Dump(Writer, MaxMtime)
  \/ \E opened \in BOOLEAN :
       write_count[TargetFile(Writer)] < MaxWrites
         /\ DumpFails(Writer, opened, MaxMtime)
  \/ InvalidateAndReturn(Writer)
  \/ \E input \in WriteInputs : SaveFile(input, DocSaved, MaxMtime)
  \/ \E title \in Titles : CreatePost(title)
  \/ Initialize(FALSE)

SpecWrite == InitPublish /\ [][NextWrite]_vars

\* the editor saves files, creates posts and uploads images
NextEffects ==
  \/ \E input \in SaveInputs : SaveFile(input, DocSaved, MaxMtime)
  \/ \E title \in Titles : CreatePost(title)
  \/ \E input \in ImageInputs : SaveImage(input)

SpecEffects == InitPublish /\ [][NextEffects]_vars

\* request threads start, stop and poll the hugo server while its
\* processes run, write output and exit
NextHugo ==
  \/ \E c \in Callers : StartCheck(c)
  \/ \E c \in Callers, found \in BOOLEAN : StartPopen(c, found)
  \/ \E c \in Callers : Stop(c)
  \/ \E c \in Callers : GetStatus(c)
  \/ MonitorLogs
  \/ \E p \in 1..Len(procs) : ProcessExits(p)

SpecHugo == InitDb /\ [][NextHugo]_vars

\* requests to the service, one of them answered or hit by a Database
\* error in each behaviour
NextService ==
  \/ \E input \in RouteInputs : ret = NoRet /\ PublishRoute(BulkThread, input)
  \/ ret = NoRet /\ TryLock(BulkThread)
  \/ \E utc \in Nows : ret = NoRet /\ Load(BulkThread, utc)
  \/ \E m \in Mtimes : ret = NoRet /\ Dump(BulkThread, m)
  \/ ret = NoRet /\ InvalidateAndReturn(BulkThread)
  \/ ret = NoRet /\ FailingPublishInvalidate(BulkThread)
  \/ \E input \in RouteInputs : ret = NoRet /\ StatusRoute(input)
  \/ \E force \in BOOLEAN : ret = NoRet /\ Initialize(force)
  \/ ret = NoRet /\ FailingInitialize
  \/ ret = NoRet /\ initialized /\ FailingQuery
  \/ \E input \in RouteInputs : ret = NoRet /\ FailingInvalidate(input)

SpecService == InitPublish /\ [][NextService]_vars

\* a worker thread inside publish_article is never blocked (LOCK_NB, a sleep
\* of 0.1 s) and the scheduler keeps running it; callers and other
\* processes owe nothing.  What the clock and the filesystem hand out makes
\* no difference to progress, so they are held fixed here.
ThreadStep(t) ==
  \/ TryLock(t)
  \/ Load(t, 0)
  \/ Dump(t, MaxMtime)
  \/ InvalidateAndReturn(t)

\* the calls that matter for progress: a file two threads and another
\* process contend for, a second file that can be locked, and a path that
\* is turned away at once
LiveInputs == {Rel(<<SegPost, SegA>>), Abs(FX), Abs(FO)}

NextPublishLive ==
  \/ \E t \in Threads, input \in LiveInputs : PublishCall(t, input)
  \/ \E t \in Threads : ThreadStep(t)
  \/ \E f \in ExternalFiles : ExternalLock(f)
  \/ \E f \in ExternalFiles : ExternalUnlock(f)

SpecPublishLive ==
  /\ InitPublish
  /\ [][NextPublishLive]_vars
  /\ \A t \in Threads : WF_vars(ThreadStep(t))

TypeOK ==
  /\ initialized \in BOOLEAN
  /\ fs_changed \in BOOLEAN
  /\ last.parse_count \in 0..Cardinality(AllFiles)
  /\ last.update_count \in 0..Cardinality(AllFiles)
  /\ last.delete_count \in 0..Cardinality(AllFiles)

\* ================================================================ claims
IndexedPaths == {k \in AllFiles : db[k].present}

UnderPostDir(f) ==
  Len(f) > Len(post_dir) /\ SubSeq(f, 1, Len(post_dir)) = post_dir

\* eligible: a regular file with the tracked extension below the post directory
EligibleFiles ==
  {f \in AllFiles : fs[f].exists /\ UnderPostDir(f) /\ EndsWith(f[Len(f)], MdSuffix)}

\* eligible files whose parse yields a title or a body
ParsedFiles ==
  {f \in EligibleFiles : fs[f].doc.title # "" \/ fs[f].doc.body # ""}

ModTimesCurrent == \A k \in IndexedPaths : fs[k].exists /\ db[k].mod_time = fs[k].mtime

\* C1 as stated: right after a full reconciliation that ran, the Index holds
\* exactly the eligible files on disk, each with the file's current mtime.
C1_Original ==
  last.ran => IndexedPaths = EligibleFiles /\ ModTimesCurrent

\* C1 amended: right after a full reconciliation that ran, the Index holds
\* exactly the eligible files that parse to a non-empty title or body, and
\* every row's mod_time is the file's current mtime.
C1_Convergence ==
  last.ran => IndexedPaths = ParsedFiles /\ ModTimesCurrent

\* a reconciliation that both wrote rows and removed stale ones
C1_Witness ==
  last.ran /\ last.update_count > 0 /\ last.delete_count > 0 /\ IndexedPaths # {}

\* C2: once refresh() has returned, the Index reflects the files on disk,
\* also when a full reconciliation had completed before.
C2_RefreshReflectsDisk ==
  last.op = "refresh" => IndexedPaths = ParsedFiles /\ ModTimesCurrent

QueryResults(d) ==
  [posts |-> get_posts(d), tags |-> get_all_tags(d),
   categories |-> get_all_categories(d)]

\* C3 as stated: a full reconciliation that runs with no filesystem change
\* since the previous one parses nothing, upserts nothing and deletes nothing.
C3_Original ==
  (last.ran /\ last.clean) =>
     last.parse_count = 0 /\ last.update_count = 0 /\ last.delete_count = 0

\* C3 amended: a non-forced full reconciliation that runs with no filesystem
\* change since the previous one upserts nothing and deletes nothing (it
\* still parses every globbed file), and get_posts, get_all_tags and
\* get_all_categories return the same before and after it.
C3_Idempotence ==
  [][(last'.ran /\ last'.clean /\ ~last'.force) =>
        /\ last'.update_count = 0
        /\ last'.delete_count = 0
        /\ last'.parse_count = Cardinality(EligibleFiles)
        /\ QueryResults(db') = QueryResults(db)]_vars

\* a second, non-forced run over a non-empty Index with unchanged files
C3_Witness ==
  last.ran /\ last.clean /\ ~last.force /\ IndexedPaths # {} /\ last.parse_count > 0

\* the row a parse of the file at k gives, whoever sets relative_path
ParsedRowAt(k, row) ==
  /\ row.present
  /\ row.title = fs[k].doc.title
  /\ row.mod_time = fs[k].mtime
  /\ JsonLoads(row.tags) = fs[k].doc.tags
  /\ JsonLoads(row.categories) = fs[k].doc.categories

\* C4: invalidate_post(path) deletes the row when no file is at the resolved
\* path, parses the file and upserts its row otherwise, and changes no other
\* row.
C4_InvalidateEffect ==
  [][last'.op = "invalidate" =>
        LET k == last'.arg IN
        /\ \A j \in AllFiles \ {k} : db'[j] = db[j]
        /\ IF fs[k].exists THEN ParsedRowAt(k, db'[k]) ELSE ~db'[k].present]_vars

\* the row a full reconciliation stores for the file at k
FullSyncRow(k) ==
  [present |-> TRUE, relative_path |-> RelStr(RelativeTo(k, content_dir)),
   title |-> fs[k].doc.title, tags |-> JsonDumps(fs[k].doc.tags),
   categories |-> JsonDumps(fs[k].doc.categories), mod_time |-> fs[k].mtime]

\* C5: after invalidate_post(path) on a changed file that a full
\* reconciliation indexes, the row for the path is the row the full
\* reconciliation would store.
C5_InvalidateEquivalence ==
  (last.op = "invalidate" /\ last.arg \in ParsedFiles) =>
     db[last.arg] = FullSyncRow(last.arg)

\* ------------------------------------------------------- publish claims
\* the resolved path lies in the content root: content_dir is a prefix of
\* its segments
InsideRoot(path) ==
  Len(path) >= Len(content_dir) /\ SubSeq(path, 1, Len(content_dir)) = content_dir

SameFile(t1, t2) == TargetFile(t1) = TargetFile(t2)

\* C6: a publish call that gets to the file of a never-published draft
\* publishes it (draft false, publishDate set, success returned); a call
\* that gets to a file an earlier call has published returns "already
\* published" and leaves every file as it was.
C6_PublishTwice ==
  [][\A t \in Threads :
       LET f == TargetFile(t) IN
       /\ (pc[t] = "locked" /\ pc'[t] # "locked") =>
            /\ (write_count[f] = 0 /\ fs[f].doc.draft = "true") => pc'[t] = "dump"
            /\ write_count[f] > 0 =>
                 /\ pc'[t] = "idle"
                 /\ result'[t].message = "already_published"
                 /\ fs' = fs
       /\ (pc[t] = "dump" /\ pc'[t] # "dump") =>
            /\ pc'[t] = "invalidate"
            /\ fs'[f].doc.draft = "false"
            /\ fs'[f].doc.publishDate.present
       /\ (pc[t] = "invalidate" /\ pc'[t] # "invalidate") =>
            /\ pc'[t] = "idle"
            /\ result'[t].message = "published"]_vars

\* one call has published the file, a later call on it was turned away
C6_Witness ==
  \E t1, t2 \in Threads :
    /\ pc[t1] = "idle" /\ pc[t2] = "idle"
    /\ SameFile(t1, t2)
    /\ result[t1].message = "published"
    /\ result[t2].message = "already_published"
    /\ write_count[TargetFile(t1)] = 1

\* C7: the write of a successful publish sets draft to false, keeps a
\* publishDate that was there, and otherwise stamps the clock reading shifted
\* by eight hours with the +08:00 suffix; nothing else in the metadata moves.
C7_PublishStamp ==
  [][\A t \in Threads :
       (pc[t] = "dump" /\ pc'[t] # "dump") =>
          LET old == fs[TargetFile(t)].doc
              new == fs'[TargetFile(t)].doc
          IN /\ new.draft = "false"
             /\ old.draft = "true"
             /\ old.publishDate.present => new.publishDate = old.publishDate
             /\ ~old.publishDate.present =>
                  /\ new.publishDate.present
                  /\ new.publishDate.offset = 8
                  /\ new.publishDate.local - 8 \in Nows
             /\ [new EXCEPT !.draft = "-", !.publishDate = NoDate]
                  = [old EXCEPT !.draft = "-", !.publishDate = NoDate]]_vars

\* a draft that carried a publishDate has been published and still carries it
C7_Witness ==
  \E t \in Threads :
    /\ pc[t] = "idle"
    /\ result[t].message = "published"
    /\ fs[TargetFile(t)].doc.draft = "false"
    /\ fs[TargetFile(t)].doc.publishDate = OldDate

\* C8: a publish whose path resolves outside the content root is answered
\* with the forbidden-path message, and no file outside the root is written.
C8_EscapeRejected ==
  /\ \A t \in Threads :
       (result[t].message # "none" /\ ~InsideRoot(TargetFile(t))) => result[t].message = "forbidden"
  /\ \A f \in AllFiles : ~InsideRoot(f) => write_count[f] = 0

\* C9: the lock serializes publishes of one file: two calls are never both
\* between load and rewrite, the file is written at most once, at most one
\* call returns success and the other one fails.
C9_LockSerializes ==
  /\ \A f \in AllFiles : write_count[f] <= 1
  /\ \A t1, t2 \in Threads :
       (t1 # t2 /\ SameFile(t1, t2)) =>
          /\ ~(pc[t1] \in {"locked", "dump"} /\ pc[t2] \in {"locked", "dump"})
          /\ ~(result[t1].message = "published" /\ result[t2].message = "published")
          /\ (result[t1].message = "published" /\ pc[t2] = "idle" /\ result[t2].message # "none") =>
                result[t2].message \in {"already_published", "publish_failed"}

\* one call is about to rewrite the file while the other has been refused
\* the lock on it
C9_Witness ==
  \E t1, t2 \in Threads :
    /\ t1 # t2
    /\ SameFile(t1, t2)
    /\ pc[t1] = "dump"
    /\ pc[t2] = "lock"
    /\ polls[t2] > 0

\* C10: a call that gave up on the lock after the timeout returns the
\* lock-timeout message, not a content error.
C10_LockTimeoutSurfaced ==
  \A t \in Threads :
    (pc[t] = "idle" /\ result[t].tuple_message = "lock_timeout") =>
       result[t].message = "lock_timeout"

LocksHeld(t) == {f \in AllFiles : lock[f] = t}

Failed(t) ==
  pc[t] = "idle" /\ result[t].message \notin {"none", "pending", "published"}

\* C11: publish never hangs: a call holds at most one file lock, and only
\* between acquiring it and leaving the locked block; every call that has
\* started returns; and a call waiting for a lock that another process holds
\* either sees the lock dropped or gives up and returns failure.
C11_NoHang ==
  /\ [](\A t \in Threads :
         /\ Cardinality(LocksHeld(t)) <= 1
         /\ LocksHeld(t) # {} => pc[t] \in {"locked", "dump"})
  /\ \A t \in Threads : (pc[t] # "idle") ~> (pc[t] = "idle")
  /\ \A t \in Threads, f \in ExternalFiles :
        (pc[t] = "lock" /\ TargetFile(t) = f /\ lock[f] = "ext")
           ~> (lock[f] # "ext" \/ Failed(t))

\* a call has given up on a lock that another process still holds
C11_Witness ==
  \E t \in Threads :
    /\ Failed(t)
    /\ result[t].tuple_message = "lock_timeout"
    /\ lock[TargetFile(t)] = "ext"

\* C12: when a publish returns success, targeted invalidation of its path
\* has run, and the Index row of the path carries the mtime of the file as
\* the publish wrote it.
C12_PublishInvalidates ==
  [][\A t \in Threads :
       (pc[t] = "invalidate" /\ pc'[t] = "idle" /\ result'[t].message = "published") =>
          LET f == TargetFile(t) IN
          /\ last'.op = "invalidate" /\ last'.arg = f
          /\ db'[f].present
          /\ db'[f].mod_time = fs'[f].mtime]_vars

\* ---------------------------------------------------- concurrency claims
Quiet == \A w \in Workers : sync[w].pc = "idle"

\* C13: once a full reconciliation has completed, no reconciliation is
\* under way and every changed file has had its invalidation or a later
\* scan, the Index has no row for a deleted file, no row older than its
\* file, and a row for every file a reconciliation indexes.
C13_ConcurrentSync ==
  (initialized /\ Quiet /\ pending = {}) =>
     /\ \A k \in IndexedPaths : fs[k].exists /\ db[k].mod_time = fs[k].mtime
     /\ ParsedFiles \subseteq IndexedPaths

\* C14: at most one full reconciliation is past the guard at any moment.
C14_GuardAtomic ==
  Cardinality({w \in Workers : sync[w].pc = "apply"}) <= 1

\* ------------------------------------------------------- query claims
QueryOps == {"get_posts", "get_all_tags", "get_all_categories"}

\* C15: a query that starts while no full reconciliation has completed in
\* this process runs one before it reads, so that the Index it reads holds
\* the files then on disk; and whenever a query has returned, the
\* initialized guard is true.
C15_LazyInit ==
  [][last'.op \in QueryOps =>
       /\ initialized'
       /\ ~initialized =>
            /\ last'.ran
            /\ {k \in AllFiles : db'[k].present} = ParsedFiles
       /\ initialized => ~last'.ran /\ db' = db]_vars

\* a query has run the reconciliation itself and found articles
C15_Witness ==
  last.op \in QueryOps /\ last.ran /\ IndexedPaths # {}

\* --------------------------------------------------------- bulk claims
BulkDone == bulk.active /\ bulk.returned /\ ret.op = "bulk_publish"

\* C16: the dict bulk_publish_articles returns has total_count equal to the
\* number of input paths, one results entry per input path in input order,
\* published_count and failed_count equal to the numbers of entries with
\* and without success, summing to total_count, and success true exactly
\* when failed_count is 0.
C16_BulkCounts ==
  BulkDone =>
    LET out == ret.value
        n   == Len(bulk.file_paths)
    IN /\ out.total_count = n
       /\ Len(out.results) = n
       /\ \A j \in 1..n : out.results[j].file_path = bulk.file_paths[j]
       /\ out.published_count = Cardinality({j \in 1..n : out.results[j].success})
       /\ out.failed_count = Cardinality({j \in 1..n : ~out.results[j].success})
       /\ out.published_count + out.failed_count = out.total_count
       /\ out.success <=> (out.failed_count = 0)

\* a batch has returned with items published and items failed
C16_Witness ==
  /\ BulkDone
  /\ ret.value.published_count > 0
  /\ ret.value.failed_count > 0
  /\ ~ret.value.success

\* an article that get_publish_status reports as publishable: an existing
\* file inside the content root that is a draft, the draft flag counting as
\* true when the key is absent
PublishableKinds == {"draft", "no_draft_key"}

\* C17: when bulk_publish_articles returns, publish_article has been called
\* exactly once on every path of the list, whatever failed before it, and
\* every item after a failed one that was publishable when its call came,
\* and whose lock was not refused until the timeout, is published: its
\* entry reports success and its file has draft false.
C17_BulkIsolation ==
  BulkDone =>
    \A j \in 1..Len(bulk.file_paths) :
      /\ bulk.attempts[j] = 1
      /\ ( /\ \E k \in 1..(j - 1) : ~ret.value.results[k].success
           /\ bulk.kinds[j] \in PublishableKinds
           /\ bulk.causes[j] # "lock_timeout" ) =>
            /\ ret.value.results[j].success
            /\ fs[Resolve(Absolutize(bulk.file_paths[j]))].doc.draft = "false"

\* ------------------------------------------------------------ read claims
\* C18: an article without a draft key is a draft for every operation: the
\* parser yields draft true, get_publish_status reports is_draft and
\* is_publishable true, and a publish call that gets to the file goes on to
\* write it instead of returning "already published".
C18_DraftDefault ==
  [][\A t \in Threads :
       LET f == TargetFile(t) IN
       (pc[t] = "locked" /\ pc'[t] # "locked" /\ fs[f].doc.draft = "absent") =>
          /\ BlogPost(f).draft
          /\ get_publish_status(Abs(f)).is_draft
          /\ get_publish_status(Abs(f)).is_publishable
          /\ pc'[t] = "dump"]_vars

C20_Pagination ==
  (ret.op = "page" /\ ret.value.page \in 1..ret.value.total_pages) =>
    LET out   == ret.value
        total == Len(ret.all_posts)
        start == (out.page - 1) * out.per_page
        size  == IF total - start < out.per_page THEN total - start
                 ELSE out.per_page
    IN /\ out.total = total
       /\ out.total_pages * out.per_page >= total
       /\ (out.total_pages - 1) * out.per_page < total
       /\ Len(out.posts) = size
       /\ size >= 1
       /\ \A i \in 1..size : out.posts[i] = ret.all_posts[start + i]
       /\ out.has_next <=> (out.page < out.total_pages)
       /\ out.has_prev <=> (out.page > 1)

\* 25 records at 10 a page: the third page holds five and is the last
C20_Witness ==
  /\ ret.op = "page"
  /\ Len(ret.all_posts) = 25
  /\ ret.value.per_page = 10
  /\ ret.value.page = 3
  /\ Len(ret.value.posts) = 5
  /\ ~ret.value.has_next
  /\ ret.value.has_prev

\* C21: a page outside 1..total_pages (beyond the last page, page 0, a
\* negative page) gives an empty posts list together with the total and
\* total_pages of the filtered list.
C21_OutOfRange ==
  (ret.op = "page" /\ ret.value.page \notin 1..ret.value.total_pages) =>
     /\ ret.value.posts = <<>>
     /\ ret.value.total = Len(ret.all_posts)
     /\ ret.value.total_pages =
          TotalPages(Len(ret.all_posts), ret.value.per_page)

\* -------------------------------------------------------- Database claims
RECURSIVE Flatten(_)
Flatten(lists) ==
  IF lists = <<>> THEN <<>> ELSE Head(lists) \o Flatten(Tail(lists))

FirstIndex(items, x) == CHOOSE i \in 1..Len(items) :
  items[i] = x /\ \A j \in 1..(i - 1) : items[j] # x

\* C22: get_all_tags / get_all_categories return one entry per distinct
\* value with the number of its occurrences over all records, sorted by
\* count from high to low, entries of equal count in the order in which
\* the values were first met.
C22_Counts ==
  ret.op = "counts" =>
    LET out  == ret.value
        flat == Flatten(ret.rows)
    IN /\ {out[i].name : i \in 1..Len(out)} = {flat[i] : i \in 1..Len(flat)}
       /\ \A i, j \in 1..Len(out) : out[i].name = out[j].name => i = j
       /\ \A i \in 1..Len(out) : out[i].count = CountIn(out[i].name, flat)
       /\ \A i, j \in 1..Len(out) :
             i < j =>
               \/ out[i].count > out[j].count
               \/ /\ out[i].count = out[j].count
                  /\ FirstIndex(flat, out[i].name) < FirstIndex(flat, out[j].name)

\* tags [a, b], [a], [b, c] give a: 2, b: 2, c: 1
C22_Witness ==
  /\ ret.op = "counts"
  /\ ret.rows = <<<<TagA, TagB>>, <<TagA>>, <<TagB, TagC>>>>
  /\ ret.value = <<[name |-> TagA, count |-> 2], [name |-> TagB, count |-> 2],
                   [name |-> TagC, count |-> 1]>>

\* C23: search_posts with a category or tag filter returns exactly the
\* records whose categories or tags hold an element equal to the filter.
C23_FilterExact ==
  ret.op = "search" =>
    {ret.value[i].file_path : i \in 1..Len(ret.value)}
      = {table[i].file_path : i \in
           {j \in 1..Len(table) :
              \E n \in 1..Len(JsonLoads(table[j][ret.field])) :
                 JsonLoads(table[j][ret.field])[n] = ret.filter}}

Written(step_last, step_table, op) ==
  /\ step_last.op = op
  /\ (step_last # last \/ step_table # table)

\* C24: the table never holds two rows with one file_path; right after
\* upsert_post(post_data), get_post of its file_path returns the fields of
\* post_data, tags and categories as the sequences handed in, and get_post
\* of every other file_path returns what it returned before.
C24_Upsert ==
  [][/\ \A f \in DbPaths : Len(RowsAt(table', f)) <= 1
     /\ Written(last', table', "upsert_post") =>
          /\ SelectPost(table', last'.arg.file_path)
               = [found |-> TRUE, post |-> last'.arg]
          /\ \A f \in DbPaths \ {last'.arg.file_path} :
                SelectPost(table', f) = SelectPost(table, f)]_vars

\* an upsert has replaced the row of its path, next to another row, with
\* a tag that holds a quotation mark
C24_Witness ==
  /\ last.op = "upsert_post"
  /\ last.delete_count = 1
  /\ Len(table) = 2
  /\ last.arg.tags = <<TagQuoted, TagA>>
  /\ SelectPost(table, last.arg.file_path).post.tags = <<TagQuoted, TagA>>

\* C25: right after delete_post(path) the table has no row for the path
\* and every other row is as it was, in the same order; when the path had
\* no row the table is unchanged.
C25_Delete ==
  [][Written(last', table', "delete_post") =>
       /\ RowsAt(table', last'.arg) = <<>>
       /\ \A f \in DbPaths \ {last'.arg} : RowsAt(table', f) = RowsAt(table, f)
       /\ Len(table') = Len(table) - Len(RowsAt(table, last'.arg))
       /\ RowsAt(table, last'.arg) = <<>> => table' = table]_vars

\* a delete of a path without a row has returned and left two rows alone
C25_Witness ==
  /\ last.op = "delete_post"
  /\ last.delete_count = 0
  /\ Len(table) = 2

\* ----------------------------------------------------------- parser claims
Unparsable(f) == fs[f].doc.malformed

C27_AlwaysSequences ==
  ret.op = "materialize" =>
    /\ ret.parsed.type = "list"
    /\ ret.stored # JsonNull /\ Head(ret.stored) = "["
    /\ ret.loaded.type = "list"

\* C28: the excerpt is the first 200 characters of the stripped body text,
\* followed by '...' exactly when that text is longer than 200 characters.
C28_Excerpt ==
  ret.op = "excerpt" =>
    LET pre == Strip(StripMarks(ret.content)) IN
    ret.value = IF Len(pre) > ExcerptLimit
                THEN SubSeq(pre, 1, ExcerptLimit) \o Ellipsis
                ELSE pre

\* ---------------------------------------------------------- service claims
\* C29: an error the Database raises inside a full sync, a targeted
\* invalidation, a query or the invalidation that follows a publish is
\* raised to the caller of that operation, and a publish hit by it does
\* not return success.
C29_StorageErrorsPropagate ==
  ret.op = "storage_error" =>
    /\ ret.raised
    /\ \A t \in Threads : result[t].message # "published"

\* C30: a publish request or a status request for a path at which no file
\* lies is answered with success false and HTTP 404.
C30_NotFound ==
  (ret.op = "response" /\ ~FileExists(Resolve(Absolutize(ret.input)))) =>
     ~ret.success /\ ret.status_code = 404

\* ------------------------------------------------- corrective writes
\* the files of a set whose row is missing or carries another mod_time
Stale(files) ==
  {f \in files : ~db[f].present \/ db[f].mod_time # fs[f].mtime}

\* what a reconciliation that ran has written, given the files it takes
\* for current
CorrectiveWrites(current) ==
  LET upserted == IF last'.force THEN current ELSE Stale(current)
      deleted  == IndexedPaths \ current
  IN /\ last'.update_count = Cardinality(upserted)
     /\ last'.delete_count = Cardinality(deleted)
     /\ \A k \in upserted : db'[k].present /\ db'[k].mod_time = fs[k].mtime
     /\ \A k \in deleted : ~db'[k].present
     /\ \A k \in AllFiles \ (upserted \cup deleted) : db'[k] = db[k]

C32_DateOrder ==
  ret.op = "list" =>
    /\ ~ret.raised
    /\ Len(ret.value) = Len(ret.dates)
    /\ \A i, j \in 1..Len(ret.value) :
         i < j =>
           /\ ret.value[i].kind = "none" => ret.value[j].kind = "none"
           /\ ~TupleLess(get_sort_key(ret.value[i]), get_sort_key(ret.value[j]))

\* -------------------------------------------------------------- git claims
StepNames == <<"check_status", "add", "commit", "push">>

HasRun(out, command) == \E i \in 1..Len(out.ran) : out.ran[i] = command

\* C33: publish_system records its steps in the order check-status, add,
\* commit, push and runs a step only after every earlier one succeeded, so
\* that nothing is pushed unless the commit succeeded; with no changes it
\* returns success false and the no-changes message and runs neither add
\* nor commit nor push; success is true only if all four steps succeeded.
C33_PublishSystem ==
  ret.op = "publish_system" =>
    LET out == ret.value
        o   == ret.outcomes
    IN /\ Len(out.steps) <= 4
       /\ \A i \in 1..Len(out.steps) :
            /\ out.steps[i].name = StepNames[i]
            /\ \A j \in 1..(i - 1) : out.steps[j].success
       /\ HasRun(out, "add") => o.status_ok /\ o.has_changes
       /\ HasRun(out, "commit") => HasRun(out, "add") /\ o.add_ok
       /\ HasRun(out, "push") => HasRun(out, "commit") /\ o.commit_ok
       /\ (o.is_repo /\ o.status_ok /\ ~o.has_changes) =>
            /\ ~out.success
            /\ out.message = "no_changes"
            /\ out.ran = <<"status">>
       /\ out.success =>
            Len(out.steps) = 4 /\ \A i \in 1..4 : out.steps[i].success

\* the commit failed, and the call has returned without pushing
C33_Witness ==
  /\ ret.op = "publish_system"
  /\ Len(ret.value.steps) = 3
  /\ ~ret.value.steps[3].success
  /\ ~HasRun(ret.value, "push")
  /\ ~ret.value.success

\* -------------------------------------------------------- Index key claims
\* C36: full reconciliation and targeted invalidation use the same Index
\* key for the same file, whether invalidate_post is given a relative or
\* an absolute path and in whatever form the content root was configured,
\* so that no file comes to be held under two spellings.
C36_SameKey ==
  ret.op = "index_keys" => ret.initialize = ret.invalidate

\* ------------------------------------------------------ file-write claims
\* a step of thread t's publish_article call
PublishStep(t) ==
  pc'[t] # pc[t] \/ polls'[t] # polls[t] \/ result'[t] # result[t]

\* the step returns from the call with success false
ReturnsFailure(t) ==
  /\ PublishStep(t)
  /\ pc'[t] = "idle"
  /\ result'[t].message # "published"

\* the step leaves the call on its way, the rewrite not yet made
BeforeRewrite(t) ==
  /\ PublishStep(t)
  /\ pc'[t] \in {"lock", "locked", "dump"}

\* C34: a failed publish changes nothing: no step of a publish_article call
\* that returns success false (forbidden path, file not found, already
\* published, lock not acquired, write error) changes a file's content or
\* mtime or an Index row or runs a targeted invalidation, and a call that
\* has rewritten the file returns success.
C34_FailedPublishChangesNothing ==
  [][\A t \in Threads :
       /\ (ReturnsFailure(t) \/ BeforeRewrite(t)) =>
            (fs' = fs /\ db' = db /\ last' = last)
       /\ (pc[t] = "invalidate" /\ PublishStep(t)) =>
            result'[t].message = "published"]_vars

\* C35: every write of an article file through the service is made under
\* the exclusive lock on that file: a file changes only in the rewrite step
\* of the publish call that holds its lock, so nothing else writes it
\* between that call's reload and its rewrite.
C35_WritesUnderLock ==
  [][\A f \in AllFiles :
       fs'[f] # fs[f] =>
         \E t \in Threads : lock[f] = t /\ pc[t] = "dump" /\ pc'[t] # "dump"]_vars

C38_WritesInsideRoot ==
  ret.op \in {"save_file", "create_post", "save_image"} =>
    \A path \in ret.created \cup ret.written : InsideRoot(path)

\* ------------------------------------------------------ hugo server claims
Alive == {p \in 1..Len(procs) : procs[p] = "alive"}

\* C39: the manager manages at most one server process: a start() that
\* finds the started process alive fails and neither spawns a process nor
\* clears the log buffer, a stop() with nothing running fails and changes
\* no state, and whatever the interleaving of start, stop and get_status
\* calls, every spawned process that is still running is the one the
\* manager tracks.
C39_OneTrackedProcess ==
  /\ Cardinality(Alive) <= 1
  /\ \A p \in Alive : hugo.process = p

====
